---- MODULE Spec2Model ----
(***************************************************************************)
(* s3-cas: content-addressable block store with reference counting.        *)
(*                                                                         *)
(* The model covers the metadata trees (block tree, path tree, one bucket  *)
(* tree), the block files on disk, and the three storage engines found in  *)
(* the sources: the sled based CasFS (cas/fs.rs), the transactional        *)
(* FjallStore (metastore/stores/fjall.rs) and the non-transactional        *)
(* FjallStoreNotx (metastore/stores/fjall_notx.rs).                        *)
(***************************************************************************)
EXTENDS Integers, Sequences, FiniteSets, TLC

(***************************************************************************)
(* Bounds.  BLOCKID_SIZE is 16 in the program (an MD5 digest); the model   *)
(* scales it down so that the prefix search of write_block can run out of  *)
(* prefixes within a few steps.                                            *)
(***************************************************************************)
BLOCKID_SIZE == 3

MaxRc == 2

NumProcs == 3

Min(S) == CHOOSE x \in S : \A y \in S : x <= y

(* A BlockID sharing exactly its first k bytes with the all-zero BlockID.  *)
Id(k) == [i \in 1..BLOCKID_SIZE |-> IF i <= k THEN 0 ELSE 1]

BlockIDs == {Id(BLOCKID_SIZE), Id(BLOCKID_SIZE - 1)}

Keys == {"k1", "k2"}

(* The puts that are issued: a key with the block list of its payload (a   *)
(* single chunk, a repeated chunk, two different chunks).                  *)
Puts ==
    {<<"k1", <<Id(BLOCKID_SIZE)>> >>,
     <<"k1", <<Id(BLOCKID_SIZE - 1), Id(BLOCKID_SIZE - 1)>> >>,
     <<"k2", <<Id(BLOCKID_SIZE), Id(BLOCKID_SIZE - 1)>> >>}

Engines == {"sled", "fjall", "fjall_notx"}

(* data_len of the chunk with digest h: the chunk is determined by h.      *)
ChunkLen(h) == 1 + Cardinality({i \in 1..BLOCKID_SIZE : h[i] = 0})

(* block_hash[..i] *)
Prefix(h, i) == SubSeq(h, 1, i)

(* Tree (map) helpers: insert overwrites, remove of a missing key is a     *)
(* no-op, as in the key-value engines.                                     *)
Insert(t, k, v) == (k :> v) @@ t

Remove(t, k) == [x \in DOMAIN t \ {k} |-> t[x]]

EmptyTree == [x \in {} |-> 0]

(* Block::new(size, path): a fresh Block holds one reference.              *)
NewBlock(len, p) == [size |-> len, path |-> p, rc |-> 1]

(* Block::disk_path: deterministic and injective in the path bytes.        *)
disk_path(p) == <<"blocks", p>>

(* Number of occurrences of h in the block list s.                         *)
Occ(s, h) == Cardinality({i \in 1..Len(s) : s[i] = h})

(***************************************************************************)
(* FjallStore (transactional backend)                                      *)
(***************************************************************************)

(* The prefix search of write_block: `for index in 1..BLOCKID_SIZE` (the   *)
(* upper end is excluded) starting from `idx = 0`; idx stays 0 when every  *)
(* probed prefix is taken.                                                 *)
FjallStore_find_path(paths, block_hash) ==
    LET free == {index \in 1..(BLOCKID_SIZE - 1) :
                    Prefix(block_hash, index) \notin DOMAIN paths}
    IN  IF free = {} THEN 0 ELSE Min(free)

(* write_block that deduplicates without counting the new reference.      *)
FjallStore_write_block_norc(blocks, paths, block_hash, data_len, key_has_block) ==
    IF block_hash \in DOMAIN blocks
    THEN [blocks |-> blocks, paths |-> paths, is_new |-> FALSE, panic |-> FALSE]
    ELSE LET idx == FjallStore_find_path(paths, block_hash)
             block == NewBlock(data_len, Prefix(block_hash, idx))
         IN  [blocks |-> Insert(blocks, block_hash, block),
              paths |-> Insert(paths, Prefix(block_hash, idx), block_hash),
              is_new |-> TRUE, panic |-> FALSE]

(* FjallStore::write_block, the body of the write transaction.             *)
FjallStore_write_block(blocks, paths, block_hash, data_len, key_has_block) ==
    IF block_hash \in DOMAIN blocks
    THEN LET block == IF key_has_block
                      THEN blocks[block_hash]
                      ELSE [blocks[block_hash] EXCEPT !.rc = @ + 1]
         IN  [blocks |-> IF key_has_block THEN blocks
                         ELSE Insert(blocks, block_hash, block),
              paths |-> paths, is_new |-> FALSE, panic |-> FALSE]
    ELSE LET idx == FjallStore_find_path(paths, block_hash)
             block == NewBlock(data_len, Prefix(block_hash, idx))
         IN  [blocks |-> Insert(blocks, block_hash, block),
              paths |-> Insert(paths, Prefix(block_hash, idx), block_hash),
              is_new |-> TRUE, panic |-> FALSE]

(* FjallStore::delete_object, the loop over obj.blocks() inside the write  *)
(* transaction (reads see the transaction's own writes).                   *)
RECURSIVE FjallStore_drop_blocks(_, _, _)
FjallStore_drop_blocks(blocks, ids, to_delete) ==
    IF ids = <<>> THEN [blocks |-> blocks, to_delete |-> to_delete]
    ELSE LET block_id == Head(ids) IN
         IF block_id \notin DOMAIN blocks
         THEN FjallStore_drop_blocks(blocks, Tail(ids), to_delete)
         ELSE IF blocks[block_id].rc = 1
         THEN FjallStore_drop_blocks(Remove(blocks, block_id), Tail(ids),
                                     Append(to_delete, blocks[block_id]))
         ELSE FjallStore_drop_blocks(
                  [blocks EXCEPT ![block_id].rc = @ - 1], Tail(ids), to_delete)

(* Variant: the record is removed and the blocks are left as they are.     *)
FjallStore_delete_object_norefs(bkt, blocks, key, obj) ==
    [bucket |-> Remove(bkt, key), blocks |-> blocks, to_delete |-> <<>>]

(* FjallStore::delete_object for the object record obj read at `key`.      *)
FjallStore_delete_object(bkt, blocks, key, obj) ==
    LET r == FjallStore_drop_blocks(blocks, obj, <<>>)
    IN  [bucket |-> Remove(bkt, key), blocks |-> r.blocks,
         to_delete |-> r.to_delete]

(***************************************************************************)
(* CasFS on sled (cas/fs.rs)                                               *)
(***************************************************************************)

(* The sled transaction of store_bytes over (block_map, path_map), with    *)
(* the refcount feature: unreachable!() when no probed prefix is free.     *)
CasFS_store_bytes_tx(blocks, paths, block_hash, data_len) ==
    IF block_hash \in DOMAIN blocks
    THEN [blocks |-> Insert(blocks, block_hash,
                            [blocks[block_hash] EXCEPT !.rc = @ + 1]),
          paths |-> paths, is_new |-> FALSE, panic |-> FALSE]
    ELSE LET free == {index \in 1..(BLOCKID_SIZE - 1) :
                         Prefix(block_hash, index) \notin DOMAIN paths}
         IN  IF free = {}
             THEN [blocks |-> blocks, paths |-> paths,
                   is_new |-> FALSE, panic |-> TRUE]
             ELSE LET p == Prefix(block_hash, Min(free)) IN
                  [blocks |-> Insert(blocks, block_hash, NewBlock(data_len, p)),
                   paths |-> Insert(paths, p, block_hash),
                   is_new |-> TRUE, panic |-> FALSE]

(* The loop of delete_object giving up at the first missing block.         *)
RECURSIVE CasFS_drop_blocks_break(_, _, _)
CasFS_drop_blocks_break(blocks, ids, to_delete) ==
    IF ids = <<>> THEN [blocks |-> blocks, to_delete |-> to_delete]
    ELSE LET block_id == Head(ids) IN
         IF block_id \notin DOMAIN blocks
         THEN [blocks |-> blocks, to_delete |-> to_delete]
         ELSE IF blocks[block_id].rc = 1
         THEN CasFS_drop_blocks_break(Remove(blocks, block_id), Tail(ids),
                                      Append(to_delete, blocks[block_id]))
         ELSE CasFS_drop_blocks_break(
                  [blocks EXCEPT ![block_id].rc = @ - 1], Tail(ids), to_delete)

(* The sled transaction of CasFS::delete_object over (bucket, block_map).  *)
RECURSIVE CasFS_drop_blocks(_, _, _)
CasFS_drop_blocks(blocks, ids, to_delete) ==
    IF ids = <<>> THEN [blocks |-> blocks, to_delete |-> to_delete]
    ELSE LET block_id == Head(ids) IN
         IF block_id \notin DOMAIN blocks
         THEN CasFS_drop_blocks(blocks, Tail(ids), to_delete)
         ELSE IF blocks[block_id].rc = 1
         THEN CasFS_drop_blocks(Remove(blocks, block_id), Tail(ids),
                                Append(to_delete, blocks[block_id]))
         ELSE CasFS_drop_blocks(
                  [blocks EXCEPT ![block_id].rc = @ - 1], Tail(ids), to_delete)

CasFS_delete_object_tx(bkt, blocks, key) ==
    IF key \notin DOMAIN bkt
    THEN [bucket |-> bkt, blocks |-> blocks, to_delete |-> <<>>]
    ELSE LET r == CasFS_drop_blocks(blocks, bkt[key], <<>>)
         IN  [bucket |-> Remove(bkt, key), blocks |-> r.blocks,
              to_delete |-> r.to_delete]

(***************************************************************************)
(* FjallStoreNotx (non-transactional backend)                              *)
(***************************************************************************)

(* "No block" as read by a call that found none (rc = 0 is never stored).  *)
NoBlock == [size |-> 0, path |-> <<>>, rc |-> 0]

(* FjallNoTransaction::new plus the arguments of one write_block call: the *)
(* call's local state between two operations on the partitions.            *)
FjallNoTransaction_new(block_hash, data_len, key_has_block) ==
    [pc |-> "get", block_hash |-> block_hash, data_len |-> data_len,
     key_has_block |-> key_has_block, read |-> NoBlock, index |-> 0,
     idx |-> 0, is_new |-> FALSE,
     inserted_blocks |-> <<>>, inserted_paths |-> <<>>]

(* write_block bumping the refcount whatever key_has_block says.           *)
FjallNoTransaction_write_block_step_bump(f, blocks, paths) ==
    LET h == f.block_hash IN
    CASE f.pc = "get" ->
           IF h \in DOMAIN blocks
           THEN [f |-> [f EXCEPT !.pc = "bump", !.read = blocks[h]],
                 blocks |-> blocks, paths |-> paths]
           ELSE [f |-> [f EXCEPT !.pc = IF 1 < BLOCKID_SIZE THEN "probe"
                                        ELSE "ins_path",
                                 !.index = 1],
                 blocks |-> blocks, paths |-> paths]
      [] f.pc = "bump" ->
           [f |-> [f EXCEPT !.pc = "ret",
                            !.inserted_blocks = Append(@, h)],
            blocks |-> Insert(blocks, h, [f.read EXCEPT !.rc = @ + 1]),
            paths |-> paths]
      [] f.pc = "probe" ->
           IF Prefix(h, f.index) \in DOMAIN paths
           THEN [f |-> [f EXCEPT !.index = @ + 1,
                                 !.pc = IF f.index + 1 < BLOCKID_SIZE
                                        THEN "probe" ELSE "ins_path"],
                 blocks |-> blocks, paths |-> paths]
           ELSE [f |-> [f EXCEPT !.idx = f.index, !.pc = "ins_path"],
                 blocks |-> blocks, paths |-> paths]
      [] f.pc = "ins_path" ->
           [f |-> [f EXCEPT !.pc = "ins_block",
                            !.inserted_paths = Append(@, Prefix(h, f.idx))],
            blocks |-> blocks,
            paths |-> Insert(paths, Prefix(h, f.idx), h)]
      [] f.pc = "ins_block" ->
           [f |-> [f EXCEPT !.pc = "ret", !.is_new = TRUE,
                            !.inserted_blocks = Append(@, h)],
            blocks |-> Insert(blocks, h, NewBlock(f.data_len, Prefix(h, f.idx))),
            paths |-> paths]

(* One partition operation of FjallNoTransaction::write_block.  Every      *)
(* get/insert is applied to the partitions at once: there is no isolation  *)
(* between two calls.                                                      *)
FjallNoTransaction_write_block_step(f, blocks, paths) ==
    LET h == f.block_hash IN
    CASE f.pc = "get" ->
           IF h \in DOMAIN blocks
           THEN IF f.key_has_block
                THEN [f |-> [f EXCEPT !.pc = "ret", !.read = blocks[h]],
                      blocks |-> blocks, paths |-> paths]
                ELSE [f |-> [f EXCEPT !.pc = "bump", !.read = blocks[h]],
                      blocks |-> blocks, paths |-> paths]
           ELSE [f |-> [f EXCEPT !.pc = IF 1 < BLOCKID_SIZE THEN "probe"
                                        ELSE "ins_path",
                                 !.index = 1],
                 blocks |-> blocks, paths |-> paths]
      [] f.pc = "bump" ->
           [f |-> [f EXCEPT !.pc = "ret",
                            !.inserted_blocks = Append(@, h)],
            blocks |-> Insert(blocks, h, [f.read EXCEPT !.rc = @ + 1]),
            paths |-> paths]
      [] f.pc = "probe" ->
           IF Prefix(h, f.index) \in DOMAIN paths
           THEN [f |-> [f EXCEPT !.index = @ + 1,
                                 !.pc = IF f.index + 1 < BLOCKID_SIZE
                                        THEN "probe" ELSE "ins_path"],
                 blocks |-> blocks, paths |-> paths]
           ELSE [f |-> [f EXCEPT !.idx = f.index, !.pc = "ins_path"],
                 blocks |-> blocks, paths |-> paths]
      [] f.pc = "ins_path" ->
           [f |-> [f EXCEPT !.pc = "ins_block",
                            !.inserted_paths = Append(@, Prefix(h, f.idx))],
            blocks |-> blocks,
            paths |-> Insert(paths, Prefix(h, f.idx), h)]
      [] f.pc = "ins_block" ->
           [f |-> [f EXCEPT !.pc = "ret", !.is_new = TRUE,
                            !.inserted_blocks = Append(@, h)],
            blocks |-> Insert(blocks, h, NewBlock(f.data_len, Prefix(h, f.idx))),
            paths |-> paths]

RECURSIVE FjallNoTransaction_run(_)
FjallNoTransaction_run(s) ==
    IF s.f.pc = "ret" THEN s
    ELSE FjallNoTransaction_run(
             FjallNoTransaction_write_block_step(s.f, s.blocks, s.paths))

(* FjallNoTransaction::write_block run without any other call in between.  *)
FjallNoTransaction_write_block(blocks, paths, block_hash, data_len, key_has_block) ==
    LET s == FjallNoTransaction_run(
                 [f |-> FjallNoTransaction_new(block_hash, data_len, key_has_block),
                  blocks |-> blocks, paths |-> paths])
    IN  [blocks |-> s.blocks, paths |-> s.paths,
         is_new |-> s.f.is_new, panic |-> FALSE]

(* The loop of delete_object writing every decremented block back, also   *)
(* the one whose last reference goes.                                      *)
RECURSIVE FjallStoreNotx_drop_blocks_keep(_, _, _)
FjallStoreNotx_drop_blocks_keep(blocks, ids, to_delete) ==
    IF ids = <<>> THEN [blocks |-> blocks, to_delete |-> to_delete]
    ELSE LET block_id == Head(ids) IN
         IF block_id \notin DOMAIN blocks \/ blocks[block_id].rc = 0
         THEN FjallStoreNotx_drop_blocks_keep(blocks, Tail(ids), to_delete)
         ELSE FjallStoreNotx_drop_blocks_keep(
                  [blocks EXCEPT ![block_id].rc = @ - 1], Tail(ids),
                  IF blocks[block_id].rc = 1
                  THEN Append(to_delete, blocks[block_id]) ELSE to_delete)

(* FjallStoreNotx::delete_object, the loop over obj.blocks().              *)
RECURSIVE FjallStoreNotx_drop_blocks(_, _, _)
FjallStoreNotx_drop_blocks(blocks, ids, to_delete) ==
    IF ids = <<>> THEN [blocks |-> blocks, to_delete |-> to_delete]
    ELSE LET block_id == Head(ids) IN
         IF block_id \notin DOMAIN blocks
         THEN FjallStoreNotx_drop_blocks(blocks, Tail(ids), to_delete)
         ELSE IF blocks[block_id].rc = 1
         THEN FjallStoreNotx_drop_blocks(Remove(blocks, block_id), Tail(ids),
                                         Append(to_delete, blocks[block_id]))
         ELSE FjallStoreNotx_drop_blocks(
                  [blocks EXCEPT ![block_id].rc = @ - 1], Tail(ids), to_delete)

(* FjallStoreNotx::delete_object run without any other call in between.    *)
FjallStoreNotx_delete_object(bkt, blocks, key) ==
    IF key \notin DOMAIN bkt
    THEN [bucket |-> bkt, blocks |-> blocks, to_delete |-> <<>>]
    ELSE LET r == FjallStoreNotx_drop_blocks(blocks, bkt[key], <<>>)
         IN  [bucket |-> Remove(bkt, key), blocks |-> r.blocks,
              to_delete |-> r.to_delete]

(***************************************************************************)
(* State                                                                   *)
(***************************************************************************)
VARIABLES
    engine,      \* the storage engine the process was started with
    block_tree,  \* _BLOCKS: BlockID -> Block
    path_tree,   \* _PATHS: path bytes -> BlockID
    bucket,      \* the object tree of one bucket: key -> block list
    disk,        \* block files: disk path -> digest of the bytes in the file
    put,         \* the store_bytes / put in flight
    del,         \* the CasFS::delete_object in flight
    last,        \* the last metastore call and what it returned
    calls,       \* concurrent write_block callers (specification SpecTx)
    tx_lock,     \* holder of the keyspace's single write transaction
    ingests,     \* concurrent puts (specification SpecNotx)
    round,       \* the put-then-delete round trip (specification SpecRound)
    tenants,     \* the router's cache and the per-tenant metastores (SpecTenant)
    sb,          \* the CasFS::store_bytes call in flight (SpecStore)
    rb,          \* the FjallNoTransaction in use (SpecRollback)
    listing,     \* the last range_filter call and its result (SpecRange)
    pager,       \* the page-by-page listing in progress (SpecPage)
    ms,          \* one metastore: bucket registry and bucket partitions (SpecBucket)
    bcalls,      \* the create_bucket calls in flight (SpecBucket)
    router,      \* the router's handle cache, its lock and the calls in flight (SpecRouter)
    us,          \* the three user trees and the UserStore calls in flight (SpecUsers)
    reader,      \* the BlockStream being read (SpecRead)
    ss,          \* the SessionStore, its clock and its calls (SpecSession)
    peer,        \* a chunk task of a second, concurrent store_bytes (SpecStoreRace)
    wbf,         \* a FjallStore::write_block call whose operations can fail (SpecTxFail)
    scan,        \* a get_bucket_keys iterator (SpecKeys)
    ui           \* the web UI: users, sessions and the requests in flight (SpecUi)

vars == <<engine, block_tree, path_tree, bucket, disk, put, del, last,
          calls, tx_lock, ingests, round, tenants, sb, rb, listing, pager,
          ms, bcalls, router, us, reader, ss, peer, wbf, scan, ui>>

IdlePut == [st |-> "idle", key |-> "", payload |-> <<>>, i |-> 0]

IdleDel == [st |-> "idle", todo |-> <<>>]

NoCall == [op |-> "none", hash |-> <<>>, khb |-> FALSE, is_new |-> FALSE,
           panic |-> FALSE, key |-> "", to_delete |-> <<>>, dst |-> ""]

Procs == 1..NumProcs

NoWrites == [block_w |-> FALSE, block |-> NoBlock, path_w |-> FALSE]

IdleCall == [pc |-> "idle", hash |-> <<>>, is_new |-> FALSE, staged |-> NoWrites,
             key |-> "", obj |-> <<>>, to_delete |-> <<>>]

Putters == {1, 2}

KeyOf(p) == IF p = 1 THEN "k1" ELSE "k2"

IdleIngest == [pc |-> "idle", payload |-> <<>>, i |-> 0,
               f |-> FjallNoTransaction_new(<<>>, 0, FALSE), new |-> <<>>]

NoRound == [st |-> "off", before |-> EmptyTree, keys |-> {}, left |-> {}]

NoTenants == [cache |-> EmptyTree, stores |-> EmptyTree, actor |-> ""]

NoTx == [st |-> "off", f |-> FjallNoTransaction_new(<<>>, 0, FALSE), n |-> 0,
         before |-> [blocks |-> EmptyTree, paths |-> EmptyTree]]

NoListing == [st |-> "off", start_after |-> <<>>, prefix |-> <<>>,
              continuation_token |-> <<>>, out |-> <<>>]

NoPager == [st |-> "off", prefix |-> <<>>, limit |-> 0,
            continuation_token |-> <<>>, acc |-> <<>>, pages |-> 0]

NoBuckets == [registry |-> EmptyTree, parts |-> EmptyTree,
              inserted |-> {}, created |-> EmptyTree, listed |-> <<>>]

Creators == {1, 2}

IdleCreate == [pc |-> "idle", name |-> <<>>, res |-> "none"]

IdleLookup == [pc |-> "idle", user_id |-> "", ret |-> <<>>]

NoRouter == [cache |-> EmptyTree, built |-> EmptyTree, returned |-> EmptyTree,
             readers |-> {}, writer |-> 0,
             call |-> [p \in Procs |-> IdleLookup]]

NoUserRecord == [user_id |-> "", ui_login |-> "", s3_access_key |-> "",
                 ui_password_hash |-> 0]

IdleUserCall == [pc |-> "idle", op |-> "none", user |-> NoUserRecord]

NoUsers == [users |-> EmptyTree, by_login |-> EmptyTree, by_s3_key |-> EmptyTree,
            call |-> [p \in Creators |-> IdleUserCall]]

NoSessionCall == [op |-> "none", arg |-> <<>>, val |-> <<>>, before |-> <<>>,
                  at |-> 0, seen |-> <<>>]

IdleCleanup == [st |-> "idle", initial_count |-> 0, todo |-> {},
                before |-> <<>>, seen |-> <<>>]

NoSessions == [sessions |-> <<>>, now |-> 0, pending |-> <<>>,
               cleanup |-> IdleCleanup, issued |-> <<>>, gone |-> {},
               ret |-> NoSessionCall]

NoReader == [st |-> "off", paths |-> <<>>, size |-> 0,
             range |-> [kind |-> "All", a |-> 0, b |-> 0],
             i |-> 1, cum |-> 0, out |-> <<>>]

IdleWrite == [st |-> "idle", hash |-> <<>>, khb |-> FALSE, is_new |-> FALSE,
              staged |-> NoWrites, err |-> "",
              before |-> [blocks |-> <<>>, paths |-> <<>>]]

NoScan == [st |-> "off", last_key |-> <<>>, out |-> <<>>, begun |-> {}]

Clients == {1, 2}

IdleRequest == [pc |-> "idle", user |-> "", via |-> ""]

NoUi == [users |-> <<>>, sessions |-> <<>>, issued |-> {},
         reqs |-> [c \in Clients |-> IdleRequest],
         changed |-> {}, logged_out |-> {}]

NoPeer == [pc |-> "off", block_hash |-> <<>>]

NoStore == [st |-> "off", stream |-> <<>>, next |-> 1, pc |-> <<>>,
            chan |-> <<>>, committed |-> {}, failed |-> {},
            ret |-> [ok |-> FALSE, ids |-> <<>>]]

Init ==
    /\ engine \in Engines
    /\ block_tree = EmptyTree
    /\ path_tree = EmptyTree
    /\ bucket = EmptyTree
    /\ disk = EmptyTree
    /\ put = IdlePut
    /\ del = IdleDel
    /\ last = NoCall
    /\ calls = [p \in Procs |-> IdleCall]
    /\ tx_lock = 0
    /\ ingests = [p \in Putters |-> IdleIngest]
    /\ round = NoRound
    /\ tenants = NoTenants
    /\ sb = NoStore
    /\ rb = NoTx
    /\ listing = NoListing
    /\ pager = NoPager
    /\ ms = NoBuckets
    /\ bcalls = [p \in Creators |-> IdleCreate]
    /\ router = NoRouter
    /\ us = NoUsers
    /\ reader = NoReader
    /\ ss = NoSessions
    /\ peer = NoPeer
    /\ wbf = IdleWrite
    /\ scan = NoScan
    /\ ui = NoUi

(* write_block of the engine in use, as one isolated call.                 *)
write_block(e, blocks, paths, block_hash, data_len, key_has_block) ==
    CASE e = "sled" -> CasFS_store_bytes_tx(blocks, paths, block_hash, data_len)
      [] e = "fjall" ->
           FjallStore_write_block(blocks, paths, block_hash, data_len, key_has_block)
      [] e = "fjall_notx" ->
           FjallNoTransaction_write_block(blocks, paths, block_hash, data_len,
                                          key_has_block)

(* The metadata step of delete_object of the engine in use, as one         *)
(* isolated call.                                                          *)
delete_object(e, bkt, blocks, key) ==
    CASE e = "sled" -> CasFS_delete_object_tx(bkt, blocks, key)
      [] e = "fjall" ->
           IF key \notin DOMAIN bkt
           THEN [bucket |-> bkt, blocks |-> blocks, to_delete |-> <<>>]
           ELSE FjallStore_delete_object(bkt, blocks, key, bkt[key])
      [] e = "fjall_notx" -> FjallStoreNotx_delete_object(bkt, blocks, key)

(* The chunk task of store_bytes moves on to the next chunk, or the put    *)
(* moves on to the object record.                                          *)
NextChunk(q) ==
    IF q.i = Len(q.payload) THEN [q EXCEPT !.st = "meta"]
    ELSE [q EXCEPT !.st = "chunk", !.i = @ + 1]

(***************************************************************************)
(* Actions of the specification Spec: metastore calls are isolated from    *)
(* each other; one put and one delete may be in flight and interleave at   *)
(* their suspension points (commit / file I/O / path removal).             *)
(***************************************************************************)

(* A put begins: store_bytes is called with the chunks of `payload`.       *)
PutStart(key, payload) ==
    /\ put.st = "idle"
    /\ put' = [st |-> "chunk", key |-> key, payload |-> payload, i |-> 1]
    /\ last' = NoCall
    /\ UNCHANGED <<engine, block_tree, path_tree, bucket, disk, del, calls, tx_lock, ingests,
                   round, tenants, sb, rb, listing, pager, ms, bcalls,
                   router, us, reader, ss, peer, wbf, scan, ui>>

(* store_bytes, one chunk: the metastore transaction and its commit.       *)
ChunkTx ==
    /\ put.st = "chunk"
    /\ LET h == put.payload[put.i]
           r == write_block(engine, block_tree, path_tree, h, ChunkLen(h), FALSE)
       IN  /\ h \in DOMAIN block_tree => block_tree[h].rc < MaxRc
           /\ block_tree' = r.blocks
           /\ path_tree' = r.paths
           /\ put' = IF r.panic THEN IdlePut
                     ELSE IF r.is_new THEN [put EXCEPT !.st = "file"]
                     ELSE NextChunk(put)
           /\ last' = NoCall
    /\ UNCHANGED <<engine, bucket, disk, del, calls, tx_lock, ingests, round, tenants, sb, rb,
                   listing, pager, ms, bcalls, router, us, reader, ss, peer,
                   wbf, scan, ui>>

(* store_bytes, one new chunk: the block is loaded again and the chunk is  *)
(* written to its disk path.                                               *)
ChunkFile ==
    /\ put.st = "file"
    /\ LET h == put.payload[put.i] IN
       IF h \in DOMAIN block_tree
       THEN /\ disk' = Insert(disk, disk_path(block_tree[h].path), h)
            /\ put' = NextChunk(put)
       ELSE /\ put' = IdlePut
            /\ UNCHANGED disk
    /\ last' = NoCall
    /\ UNCHANGED <<engine, block_tree, path_tree, bucket, del, calls, tx_lock, ingests, round,
                   tenants, sb, rb, listing, pager, ms, bcalls, router, us,
                   reader, ss, peer, wbf, scan, ui>>

(* The put completes: insert_meta of the object record.                    *)
PutMeta ==
    /\ put.st = "meta"
    /\ bucket' = Insert(bucket, put.key, put.payload)
    /\ put' = IdlePut
    /\ last' = NoCall
    /\ UNCHANGED <<engine, block_tree, path_tree, disk, del, calls, tx_lock, ingests, round,
                   tenants, sb, rb, listing, pager, ms, bcalls, router, us,
                   reader, ss, peer, wbf, scan, ui>>

(* CasFS::delete_object: the metadata step and its commit.                 *)
DeleteObject(key) ==
    /\ del.st = "idle"
    /\ LET r == delete_object(engine, bucket, block_tree, key)
       IN  /\ bucket' = r.bucket
           /\ block_tree' = r.blocks
           /\ del' = IF r.to_delete = <<>> THEN IdleDel
                     ELSE [st |-> "unlink", todo |-> r.to_delete]
           /\ last' = NoCall
    /\ UNCHANGED <<engine, path_tree, disk, put, calls, tx_lock, ingests, round, tenants, sb,
                   rb, listing, pager, ms, bcalls, router, us, reader, ss,
                   peer, wbf, scan, ui>>

(* CasFS::delete_object: remove_file of the next collected block; a failed *)
(* remove_file ends the call (`.expect`).                                  *)
DelUnlink ==
    /\ del.st = "unlink"
    /\ LET f == disk_path(Head(del.todo).path) IN
       IF f \in DOMAIN disk
       THEN /\ disk' = Remove(disk, f)
            /\ del' = [del EXCEPT !.st = "path"]
       ELSE /\ del' = IdleDel
            /\ UNCHANGED disk
    /\ last' = NoCall
    /\ UNCHANGED <<engine, block_tree, path_tree, bucket, put, calls, tx_lock, ingests, round,
                   tenants, sb, rb, listing, pager, ms, bcalls, router, us,
                   reader, ss, peer, wbf, scan, ui>>

(* CasFS::delete_object: the path of the unlinked block leaves the path    *)
(* map.                                                                    *)
DelPath ==
    /\ del.st = "path"
    /\ path_tree' = Remove(path_tree, Head(del.todo).path)
    /\ del' = IF Tail(del.todo) = <<>> THEN IdleDel
              ELSE [st |-> "unlink", todo |-> Tail(del.todo)]
    /\ last' = NoCall
    /\ UNCHANGED <<engine, block_tree, bucket, disk, put, calls, tx_lock, ingests, round,
                   tenants, sb, rb, listing, pager, ms, bcalls, router, us,
                   reader, ss, peer, wbf, scan, ui>>

(* The process stops and is started again: what was in flight is gone,     *)
(* the trees and the files stay.                                           *)
Crash ==
    /\ put.st # "idle" \/ del.st # "idle"
    /\ put' = IdlePut
    /\ del' = IdleDel
    /\ last' = NoCall
    /\ UNCHANGED <<engine, block_tree, path_tree, bucket, disk, calls, tx_lock, ingests, round,
                   tenants, sb, rb, listing, pager, ms, bcalls, router, us,
                   reader, ss, peer, wbf, scan, ui>>

Next ==
    \/ \E o \in Puts : PutStart(o[1], o[2])
    \/ ChunkTx
    \/ ChunkFile
    \/ PutMeta
    \/ \E key \in Keys : DeleteObject(key)
    \/ DelUnlink
    \/ DelPath
    \/ Crash

Spec == Init /\ [][Next]_vars

(***************************************************************************)
(* Specification SpecMeta: the metastore API called directly, one call     *)
(* after the other (as the stores' unit tests do), with what each call     *)
(* returned kept in `last`.                                                *)
(***************************************************************************)

(* write_block(block_hash, data_len, key_has_block); the sled transaction  *)
(* of store_bytes has no key_has_block.                                    *)
MetaWriteBlock(h, key_has_block) ==
    /\ engine = "sled" => ~key_has_block
    /\ h \in DOMAIN block_tree /\ ~key_has_block => block_tree[h].rc < MaxRc
    /\ LET r == write_block(engine, block_tree, path_tree, h, ChunkLen(h),
                            key_has_block)
       IN  /\ block_tree' = r.blocks
           /\ path_tree' = r.paths
           /\ last' = [NoCall EXCEPT !.op = "write_block", !.hash = h,
                                     !.khb = key_has_block,
                                     !.is_new = r.is_new, !.panic = r.panic]
    /\ UNCHANGED <<engine, bucket, disk, put, del, calls, tx_lock, ingests, round, tenants, sb,
                   rb, listing, pager, ms, bcalls, router, us, reader, ss,
                   peer, wbf, scan, ui>>

(* insert_meta(bucket, key, raw_obj): any object record may be inserted,   *)
(* whether or not its blocks were written.                                 *)
MetaInsertMeta(key, payload) ==
    /\ bucket' = Insert(bucket, key, payload)
    /\ last' = [NoCall EXCEPT !.op = "insert_meta", !.key = key]
    /\ UNCHANGED <<engine, block_tree, path_tree, disk, put, del, calls, tx_lock, ingests,
                   round, tenants, sb, rb, listing, pager, ms, bcalls,
                   router, us, reader, ss, peer, wbf, scan, ui>>

(* delete_object(bucket, key) -> to_delete *)
MetaDeleteObject(key) ==
    /\ LET r == delete_object(engine, bucket, block_tree, key)
       IN  /\ bucket' = r.bucket
           /\ block_tree' = r.blocks
           /\ last' = [NoCall EXCEPT !.op = "delete_object", !.key = key,
                                     !.to_delete = r.to_delete]
    /\ UNCHANGED <<engine, path_tree, disk, put, del, calls, tx_lock, ingests, round, tenants,
                   sb, rb, listing, pager, ms, bcalls, router, us, reader,
                   ss, peer, wbf, scan, ui>>

(* path_map.remove(block.path()) for the path of a block that left the     *)
(* block tree.                                                             *)
MetaRemovePath(p) ==
    /\ p \in DOMAIN path_tree
    /\ \A h \in DOMAIN block_tree : block_tree[h].path # p
    /\ path_tree' = Remove(path_tree, p)
    /\ last' = [NoCall EXCEPT !.op = "remove_path"]
    /\ UNCHANGED <<engine, block_tree, bucket, disk, put, del, calls, tx_lock, ingests, round,
                   tenants, sb, rb, listing, pager, ms, bcalls, router, us,
                   reader, ss, peer, wbf, scan, ui>>

Paths == {Prefix(h, i) : h \in BlockIDs, i \in 0..BLOCKID_SIZE}

NextMeta ==
    \/ \E h \in BlockIDs, key_has_block \in BOOLEAN : MetaWriteBlock(h, key_has_block)
    \/ \E o \in Puts : MetaInsertMeta(o[1], o[2])
    \/ \E key \in Keys : MetaDeleteObject(key)
    \/ \E p \in Paths : MetaRemovePath(p)

SpecMeta == Init /\ [][NextMeta]_vars

(***************************************************************************)
(* Specification SpecTx: concurrent write_block calls on FjallStore.  A    *)
(* call opens the keyspace's write transaction (one at a time: write_tx    *)
(* blocks while another write transaction is open), reads and stages its   *)
(* writes inside it, and commit_persist applies them.                      *)
(***************************************************************************)

(* Variant: write transactions that do not exclude one another. *)
write_tx_always(lock) == TRUE

(* keyspace.write_tx() can be entered: no other write transaction is open. *)
write_tx(lock) == lock = 0

(* What write_block stages in its transaction, from what it reads there.   *)
FjallStore_stage(blocks, paths, block_hash, data_len, key_has_block) ==
    LET r == FjallStore_write_block(blocks, paths, block_hash, data_len,
                                    key_has_block)
    IN  [is_new |-> r.is_new,
         staged |-> [block_w |-> r.blocks # blocks,
                     block |-> r.blocks[block_hash],
                     path_w |-> r.paths # paths]]

(* A thread calls write_block(h, len, false). *)
TxCall(p, h) ==
    /\ calls[p].pc = "idle"
    /\ calls' = [calls EXCEPT ![p] = [IdleCall EXCEPT !.pc = "called", !.hash = h]]
    /\ UNCHANGED <<engine, block_tree, path_tree, bucket, disk, put, del, last,
                   tx_lock, ingests, round, tenants, sb, rb, listing, pager,
                   ms, bcalls, router, us, reader, ss, peer, wbf, scan, ui>>

(* write_tx(), tx.get and the tx.insert calls of write_block. *)
TxBody(p) ==
    /\ calls[p].pc = "called"
    /\ write_tx(tx_lock)
    /\ tx_lock' = p
    /\ LET h == calls[p].hash
           r == FjallStore_stage(block_tree, path_tree, h, ChunkLen(h), FALSE)
       IN  calls' = [calls EXCEPT ![p].pc = "intx", ![p].is_new = r.is_new,
                                  ![p].staged = r.staged]
    /\ UNCHANGED <<engine, block_tree, path_tree, bucket, disk, put, del, last,
                   ingests, round, tenants, sb, rb, listing, pager, ms,
                   bcalls, router, us, reader, ss, peer, wbf, scan, ui>>

(* commit_persist(tx): the staged writes reach the partitions. *)
TxCommit(p) ==
    /\ calls[p].pc = "intx"
    /\ LET h == calls[p].hash
           w == calls[p].staged
       IN  /\ block_tree' = IF w.block_w THEN Insert(block_tree, h, w.block)
                            ELSE block_tree
           /\ path_tree' = IF w.path_w THEN Insert(path_tree, w.block.path, h)
                           ELSE path_tree
    /\ tx_lock' = IF tx_lock = p THEN 0 ELSE tx_lock
    /\ calls' = [calls EXCEPT ![p].pc = "done"]
    /\ UNCHANGED <<engine, bucket, disk, put, del, last, ingests, round, tenants, sb, rb,
                   listing, pager, ms, bcalls, router, us, reader, ss, peer,
                   wbf, scan, ui>>

NextTx ==
    \/ \E p \in Procs, h \in BlockIDs : TxCall(p, h)
    \/ \E p \in Procs : TxBody(p)
    \/ \E p \in Procs : TxCommit(p)

InitTx == Init /\ engine = "fjall"

SpecTx == InitTx /\ [][NextTx]_vars

(***************************************************************************)
(* Specification SpecNotx: two puts on FjallStoreNotx running on two       *)
(* threads.  Every get/insert of write_block is a step of its own; commit  *)
(* does nothing.                                                           *)
(***************************************************************************)

NotxPayloads == {<<Id(BLOCKID_SIZE)>>, <<Id(BLOCKID_SIZE), Id(BLOCKID_SIZE - 1)>>}

(* The put of process p moves on to its next chunk or to the record. *)
NotxNextChunk(q) ==
    IF q.i = Len(q.payload) THEN [q EXCEPT !.pc = "meta"]
    ELSE [q EXCEPT !.pc = "wb", !.i = @ + 1,
                   !.f = FjallNoTransaction_new(q.payload[q.i + 1],
                                                ChunkLen(q.payload[q.i + 1]),
                                                FALSE)]

(* The put begins: begin_transaction for the first chunk. *)
NotxPutStart(p, payload) ==
    /\ ingests[p].pc = "idle"
    /\ ingests' = [ingests EXCEPT ![p] =
           [pc |-> "wb", payload |-> payload, i |-> 1,
            f |-> FjallNoTransaction_new(payload[1], ChunkLen(payload[1]), FALSE),
            new |-> <<>>]]
    /\ UNCHANGED <<engine, block_tree, path_tree, bucket, disk, put, del, last,
                   calls, tx_lock, round, tenants, sb, rb, listing, pager,
                   ms, bcalls, router, us, reader, ss, peer, wbf, scan, ui>>

(* One get or insert of write_block. *)
NotxStep(p) ==
    /\ ingests[p].pc = "wb"
    /\ ingests[p].f.pc # "ret"
    /\ LET r == FjallNoTransaction_write_block_step(ingests[p].f, block_tree,
                                                    path_tree)
       IN  /\ block_tree' = r.blocks
           /\ path_tree' = r.paths
           /\ ingests' = [ingests EXCEPT ![p].f = r.f]
    /\ UNCHANGED <<engine, bucket, disk, put, del, last, calls, tx_lock, round, tenants, sb, rb,
                   listing, pager, ms, bcalls, router, us, reader, ss, peer,
                   wbf, scan, ui>>

(* write_block returns (is_new, block) and the transaction commits. *)
NotxCommit(p) ==
    /\ ingests[p].pc = "wb"
    /\ ingests[p].f.pc = "ret"
    /\ LET q == [ingests[p] EXCEPT !.new = Append(@, ingests[p].f.is_new)]
       IN  ingests' = [ingests EXCEPT ![p] =
               IF q.f.is_new THEN [q EXCEPT !.pc = "file"] ELSE NotxNextChunk(q)]
    /\ UNCHANGED <<engine, block_tree, path_tree, bucket, disk, put, del, last,
                   calls, tx_lock, round, tenants, sb, rb, listing, pager,
                   ms, bcalls, router, us, reader, ss, peer, wbf, scan, ui>>

(* The new chunk is written to the disk path of its block. *)
NotxFile(p) ==
    /\ ingests[p].pc = "file"
    /\ LET h == ingests[p].payload[ingests[p].i] IN
       IF h \in DOMAIN block_tree
       THEN /\ disk' = Insert(disk, disk_path(block_tree[h].path), h)
            /\ ingests' = [ingests EXCEPT ![p] = NotxNextChunk(ingests[p])]
       ELSE /\ ingests' = [ingests EXCEPT ![p].pc = "panic"]
            /\ UNCHANGED disk
    /\ UNCHANGED <<engine, block_tree, path_tree, bucket, put, del, last,
                   calls, tx_lock, round, tenants, sb, rb, listing, pager,
                   ms, bcalls, router, us, reader, ss, peer, wbf, scan, ui>>

(* insert_meta of the object record: the put is complete. *)
NotxMeta(p) ==
    /\ ingests[p].pc = "meta"
    /\ bucket' = Insert(bucket, KeyOf(p), ingests[p].payload)
    /\ ingests' = [ingests EXCEPT ![p].pc = "done"]
    /\ UNCHANGED <<engine, block_tree, path_tree, disk, put, del, last,
                   calls, tx_lock, round, tenants, sb, rb, listing, pager,
                   ms, bcalls, router, us, reader, ss, peer, wbf, scan, ui>>

NextNotx ==
    \/ \E p \in Putters, payload \in NotxPayloads : NotxPutStart(p, payload)
    \/ \E p \in Putters : NotxStep(p)
    \/ \E p \in Putters : NotxCommit(p)
    \/ \E p \in Putters : NotxFile(p)
    \/ \E p \in Putters : NotxMeta(p)

InitNotx == Init /\ engine = "fjall_notx"

SpecNotx == InitNotx /\ [][NextNotx]_vars

(***************************************************************************)
(* Specification SpecDel: delete_object of FjallStore called from several  *)
(* threads while objects are put.  The object record is read from the      *)
(* bucket partition before the write transaction is opened; the write      *)
(* transaction itself runs alone (write_tx is exclusive), so it is one     *)
(* step from write_tx() to commit_persist.                                 *)
(***************************************************************************)

(* delete_object: bucket.get(key); an absent object returns Ok(vec![]).    *)
DelRead(p, key) ==
    /\ calls[p].pc = "idle"
    /\ calls' = [calls EXCEPT ![p] =
           IF key \in DOMAIN bucket
           THEN [IdleCall EXCEPT !.pc = "read", !.key = key, !.obj = bucket[key]]
           ELSE [IdleCall EXCEPT !.pc = "absent", !.key = key]]
    /\ UNCHANGED <<engine, block_tree, path_tree, bucket, disk, put, del, last,
                   tx_lock, ingests, round, tenants, sb, rb, listing, pager,
                   ms, bcalls, router, us, reader, ss, peer, wbf, scan, ui>>

(* delete_object: write_tx(), tx.remove of the record, the loop over the   *)
(* blocks of the object read before, commit_persist.                       *)
DelTx(p) ==
    /\ calls[p].pc = "read"
    /\ write_tx(tx_lock)
    /\ LET r == FjallStore_delete_object(bucket, block_tree, calls[p].key,
                                         calls[p].obj)
       IN  /\ bucket' = r.bucket
           /\ block_tree' = r.blocks
           /\ calls' = [calls EXCEPT ![p].pc = "done",
                                     ![p].to_delete = r.to_delete]
    /\ UNCHANGED <<engine, path_tree, disk, put, del, last, tx_lock, ingests, round, tenants,
                   sb, rb, listing, pager, ms, bcalls, router, us, reader,
                   ss, peer, wbf, scan, ui>>

NextDel ==
    \/ \E o \in Puts : PutStart(o[1], o[2])
    \/ ChunkTx
    \/ ChunkFile
    \/ PutMeta
    \/ \E p \in Procs, key \in Keys : DelRead(p, key)
    \/ \E p \in Procs : DelTx(p)

SpecDel == InitTx /\ [][NextDel]_vars

(***************************************************************************)
(* Specification SpecCopy: the sled CasFS (feature "refcount") with puts,  *)
(* copy_object and delete_object.                                          *)
(***************************************************************************)

(* CasFS::copy_object.  copy_source is the x-amz-copy-source (bucket, key) *)
(* of the request and input_key the key of the request itself.  The        *)
(* record is read at input_key and inserted at the copy_source key; the    *)
(* block map is not touched.                                               *)
CasFS_copy_object(bkt, input_key, copy_source_key) ==
    IF input_key \in DOMAIN bkt
    THEN [bucket |-> Insert(bkt, copy_source_key, bkt[input_key]), ok |-> TRUE]
    ELSE [bucket |-> bkt, ok |-> FALSE]

(* A CopyObject request: copy the object at copy_source_key to input_key.  *)
CopyObject(input_key, copy_source_key) ==
    /\ LET r == CasFS_copy_object(bucket, input_key, copy_source_key)
       IN  /\ bucket' = r.bucket
           /\ last' = [NoCall EXCEPT !.op = "copy_object",
                                     !.key = copy_source_key,
                                     !.dst = input_key,
                                     !.panic = ~r.ok]
    /\ UNCHANGED <<engine, block_tree, path_tree, disk, put, del, calls,
                   tx_lock, ingests, round, tenants, sb, rb, listing, pager,
                   ms, bcalls, router, us, reader, ss, peer, wbf, scan, ui>>

NextCopy ==
    \/ \E o \in Puts : PutStart(o[1], o[2])
    \/ ChunkTx
    \/ ChunkFile
    \/ PutMeta
    \/ \E input_key, copy_source_key \in Keys :
           CopyObject(input_key, copy_source_key)
    \/ \E key \in Keys : DeleteObject(key)
    \/ DelUnlink
    \/ DelPath

InitSled == Init /\ engine = "sled"

SpecCopy == InitSled /\ [][NextCopy]_vars

(***************************************************************************)
(* Specification SpecRound: whole puts and whole delete_object calls, one  *)
(* after the other; at some point a round begins: objects are put under    *)
(* keys of their own, then each of them is deleted, with no other writer   *)
(* in between.                                                             *)
(***************************************************************************)

(* write_block(.., key_has_block = false) for every chunk of a payload.    *)
RECURSIVE write_blocks(_, _, _, _)
write_blocks(e, blocks, paths, payload) ==
    IF payload = <<>> THEN [blocks |-> blocks, paths |-> paths, panic |-> FALSE]
    ELSE LET r == write_block(e, blocks, paths, Head(payload),
                              ChunkLen(Head(payload)), FALSE)
         IN  IF r.panic THEN [blocks |-> r.blocks, paths |-> r.paths, panic |-> TRUE]
             ELSE write_blocks(e, r.blocks, r.paths, Tail(payload))

(* A completed put: every chunk through write_block, then insert_meta.     *)
RoundPut(key, payload) ==
    /\ round.st \in {"off", "puts"}
    /\ round.st = "puts" => key \notin round.keys
    /\ LET r == write_blocks(engine, block_tree, path_tree, payload)
       IN  /\ ~r.panic
           /\ round.st = "off" => \A h \in DOMAIN r.blocks : r.blocks[h].rc <= MaxRc
           /\ block_tree' = r.blocks
           /\ path_tree' = r.paths
    /\ bucket' = Insert(bucket, key, payload)
    /\ round' = IF round.st = "off" THEN round
                ELSE [round EXCEPT !.keys = @ \cup {key}, !.left = @ \cup {key}]
    /\ UNCHANGED <<engine, disk, put, del, last, calls, tx_lock, ingests, tenants, sb, rb,
                   listing, pager, ms, bcalls, router, us, reader, ss, peer,
                   wbf, scan, ui>>

(* A completed delete_object (metadata step).                              *)
RoundDelete(key) ==
    /\ round.st \in {"off", "puts", "dels"}
    /\ round.st # "off" => key \in round.left
    /\ LET r == delete_object(engine, bucket, block_tree, key)
       IN  /\ bucket' = r.bucket
           /\ block_tree' = r.blocks
    /\ round' = IF round.st = "off" THEN round
                ELSE [round EXCEPT !.left = @ \ {key},
                                   !.st = IF round.left = {key} THEN "done"
                                          ELSE "dels"]
    /\ UNCHANGED <<engine, path_tree, disk, put, del, last, calls, tx_lock, ingests, tenants,
                   sb, rb, listing, pager, ms, bcalls, router, us, reader,
                   ss, peer, wbf, scan, ui>>

(* The round begins: the block tree as it is now is remembered.            *)
RoundBegin ==
    /\ round.st = "off"
    /\ round' = [st |-> "puts", before |-> block_tree, keys |-> {}, left |-> {}]
    /\ UNCHANGED <<engine, block_tree, path_tree, bucket, disk, put, del, last,
                   calls, tx_lock, ingests, tenants, sb, rb, listing, pager,
                   ms, bcalls, router, us, reader, ss, peer, wbf, scan, ui>>

NextRound ==
    \/ \E o \in Puts : RoundPut(o[1], o[2])
    \/ \E key \in Keys : RoundDelete(key)
    \/ RoundBegin

SpecRound == Init /\ [][NextRound]_vars

(***************************************************************************)
(* Specification SpecTenant: the multi-user router.  One shared block      *)
(* store (block tree, path tree, block files) and one metastore per user   *)
(* under <meta_root>/user_<id>, created on the first request of the user.  *)
(***************************************************************************)

Users == {"t1", "t2"}

BucketNames == {"b"}

(* Variant: every user is given the same metastore directory.              *)
user_meta_path_shared(user_id) == <<"user_">>

(* meta_root.join(format!("user_{}", user_id))                             *)
user_meta_path(user_id) == <<"user_", user_id>>

(* A metastore that has just been opened: the _BUCKETS registry and the    *)
(* bucket partitions.                                                      *)
NewStore == [registry |-> {}, parts |-> EmptyTree]

(* UserRouter::get_casfs_by_user_id: the cached instance, or               *)
(* create_casfs_for_user on a miss.                                        *)
get_casfs_by_user_id(t, user_id) ==
    IF user_id \in DOMAIN t.cache THEN t
    ELSE LET user_meta_path_ == user_meta_path(user_id) IN
         [t EXCEPT !.cache = Insert(t.cache, user_id, user_meta_path_),
                   !.stores = IF user_meta_path_ \in DOMAIN t.stores THEN t.stores
                              ELSE Insert(t.stores, user_meta_path_, NewStore)]

(* The files of the blocks a put created.                                  *)
RECURSIVE write_files(_, _, _)
write_files(files, blocks, new) ==
    IF new = {} THEN files
    ELSE LET h == CHOOSE x \in new : TRUE
         IN  write_files(Insert(files, disk_path(blocks[h].path), h), blocks,
                         new \ {h})

(* The files of the collected blocks are unlinked and their path entries   *)
(* removed.                                                                *)
RECURSIVE unlink_all(_, _, _)
unlink_all(files, paths, to_delete) ==
    IF to_delete = <<>> THEN [disk |-> files, paths |-> paths]
    ELSE unlink_all(Remove(files, disk_path(Head(to_delete).path)),
                    Remove(paths, Head(to_delete).path), Tail(to_delete))

(* Variant: the object record is removed, the shared blocks are not        *)
(* touched.                                                                *)
tenant_delete_object_local(e, bkt, blocks, paths, files, key) ==
    [bucket |-> Remove(bkt, key), blocks |-> blocks, paths |-> paths,
     disk |-> files]

(* Delete of one object through a tenant handle: delete_object on the      *)
(* tenant's bucket tree and the shared block tree, then the files.         *)
tenant_delete_object(e, bkt, blocks, paths, files, key) ==
    LET r == delete_object(e, bkt, blocks, key)
        u == unlink_all(files, paths, r.to_delete)
    IN  [bucket |-> r.bucket, blocks |-> r.blocks, paths |-> u.paths,
         disk |-> u.disk]

(* Every object of a bucket is deleted.                                    *)
RECURSIVE tenant_delete_all(_, _, _, _, _)
tenant_delete_all(e, bkt, blocks, paths, files) ==
    IF DOMAIN bkt = {} THEN [bucket |-> bkt, blocks |-> blocks, paths |-> paths,
                             disk |-> files]
    ELSE LET key == CHOOSE k \in DOMAIN bkt : TRUE
             r == tenant_delete_object(e, bkt, blocks, paths, files, key)
         IN  tenant_delete_all(e, r.bucket, r.blocks, r.paths, r.disk)
(* create_bucket through the handle of user_id.                            *)
TenantCreateBucket(user_id, name) ==
    LET t == get_casfs_by_user_id(tenants, user_id)
        dir == t.cache[user_id]
        store == t.stores[dir]
    IN  /\ tenants' = [t EXCEPT
               !.actor = user_id,
               !.stores = IF name \in DOMAIN store.parts THEN t.stores
                          ELSE [t.stores EXCEPT ![dir] =
                                   [registry |-> store.registry \cup {name},
                                    parts |-> Insert(store.parts, name, EmptyTree)]]]
        /\ UNCHANGED <<engine, block_tree, path_tree, bucket, disk, put, del,
                       last, calls, tx_lock, ingests, round, sb, rb, listing,
                       pager, ms, bcalls, router, us, reader, ss, peer, wbf,
                       scan, ui>>

(* list_buckets through the handle of user_id.                             *)
TenantListBuckets(user_id) ==
    LET t == get_casfs_by_user_id(tenants, user_id)
    IN  /\ tenants' = [t EXCEPT !.actor = user_id]
        /\ last' = [NoCall EXCEPT !.op = "list_buckets", !.key = user_id,
                       !.to_delete = t.stores[t.cache[user_id]].registry]
        /\ UNCHANGED <<engine, block_tree, path_tree, bucket, disk, put, del,
                       calls, tx_lock, ingests, round, sb, rb, listing,
                       pager, ms, bcalls, router, us, reader, ss, peer, wbf,
                       scan, ui>>

(* delete_bucket through the handle of user_id: every object is deleted,   *)
(* the registry entry and the bucket partition are dropped.                *)
TenantDeleteBucket(user_id, name) ==
    LET t == get_casfs_by_user_id(tenants, user_id)
        dir == t.cache[user_id]
        store == t.stores[dir]
    IN  /\ name \in DOMAIN store.parts
        /\ LET r == tenant_delete_all(engine, store.parts[name], block_tree,
                                      path_tree, disk)
           IN  /\ block_tree' = r.blocks
               /\ path_tree' = r.paths
               /\ disk' = r.disk
        /\ tenants' = [t EXCEPT
               !.actor = user_id,
               !.stores = [t.stores EXCEPT ![dir] =
                              [registry |-> store.registry \ {name},
                               parts |-> Remove(store.parts, name)]]]
        /\ UNCHANGED <<engine, bucket, put, del, last, calls, tx_lock, ingests,
                       round, sb, rb, listing, pager, ms, bcalls, router, us,
                       reader, ss, peer, wbf, scan, ui>>

(* A put of a new key through the handle of user_id: the chunks go through *)
(* write_block on the shared store, new chunks are written to disk, the    *)
(* record goes into the tenant's bucket tree.                              *)
TenantPut(user_id, name, key, payload) ==
    LET t == get_casfs_by_user_id(tenants, user_id)
        dir == t.cache[user_id]
        store == t.stores[dir]
    IN  /\ name \in DOMAIN store.parts
        /\ key \notin DOMAIN store.parts[name]
        /\ LET r == write_blocks(engine, block_tree, path_tree, payload)
           IN  /\ ~r.panic
               /\ block_tree' = r.blocks
               /\ path_tree' = r.paths
               /\ disk' = write_files(disk, r.blocks,
                                      DOMAIN r.blocks \ DOMAIN block_tree)
        /\ tenants' = [t EXCEPT
               !.actor = user_id,
               !.stores = [t.stores EXCEPT ![dir].parts[name] =
                              Insert(@, key, payload)]]
        /\ UNCHANGED <<engine, bucket, put, del, last, calls, tx_lock, ingests,
                       round, sb, rb, listing, pager, ms, bcalls, router, us,
                       reader, ss, peer, wbf, scan, ui>>

(* delete_object through the handle of user_id.                            *)
TenantDelete(user_id, name, key) ==
    LET t == get_casfs_by_user_id(tenants, user_id)
        dir == t.cache[user_id]
        store == t.stores[dir]
    IN  /\ name \in DOMAIN store.parts
        /\ LET r == tenant_delete_object(engine, store.parts[name], block_tree,
                                         path_tree, disk, key)
           IN  /\ block_tree' = r.blocks
               /\ path_tree' = r.paths
               /\ disk' = r.disk
               /\ tenants' = [t EXCEPT
                      !.actor = user_id,
                      !.stores = [t.stores EXCEPT ![dir].parts[name] = r.bucket]]
        /\ UNCHANGED <<engine, bucket, put, del, last, calls, tx_lock, ingests,
                       round, sb, rb, listing, pager, ms, bcalls, router, us,
                       reader, ss, peer, wbf, scan, ui>>

NextTenant ==
    \/ \E user_id \in Users, name \in BucketNames :
           TenantCreateBucket(user_id, name)
    \/ \E user_id \in Users : TenantListBuckets(user_id)
    \/ \E user_id \in Users, name \in BucketNames :
           TenantDeleteBucket(user_id, name)
    \/ \E user_id \in Users, name \in BucketNames, key \in Keys,
          payload \in NotxPayloads : TenantPut(user_id, name, key, payload)
    \/ \E user_id \in Users, name \in BucketNames, key \in Keys :
           TenantDelete(user_id, name, key)

InitTenant == Init /\ engine \in {"fjall", "fjall_notx"}

SpecTenant == InitTenant /\ [][NextTenant]_vars

(***************************************************************************)
(* Specification SpecStore: one CasFS::store_bytes call (cas/fs.rs), its   *)
(* chunk tasks run by for_each_concurrent and the channel they report to.  *)
(***************************************************************************)

(* for_each_concurrent(5, ..): chunk tasks in flight at the same time.     *)
CONCURRENT_TASKS == 5

(* Longest stream of chunks that is ingested.                              *)
MaxChunks == 6

(* Failures injected into one store_bytes call.                            *)
MaxFaults == 1

(* An item of the input stream that is Err(e) instead of a chunk.          *)
StreamErr == <<>>

(* The streams that are ingested: n chunks, every k-th one with the second *)
(* digest, optionally an Err item at position e.                           *)
Stream(n, k, e) ==
    [i \in 1..n |-> IF i = e THEN StreamErr
                    ELSE IF i % k = 0 THEN Id(BLOCKID_SIZE - 1)
                    ELSE Id(BLOCKID_SIZE)]

Streams == {Stream(n, k, e) : n \in 1..MaxChunks, k \in {2, 3}, e \in {0, 2}}

(* What a chunk task can meet after its transaction: nothing, an error of  *)
(* block_map.get, of create_dir_all, of write, or of both of the latter.   *)
WriteOutcomes == {"ok", "get_err", "dir_err", "write_err", "dir_write_err"}

(* The items a chunk task sends: Ok((idx, block_hash)) and Err(e).         *)
SendOk(idx, block_hash) == [ok |-> TRUE, idx |-> idx, id |-> block_hash]

SendErr(idx) == [ok |-> FALSE, idx |-> idx, id |-> <<>>]

(* `ids.sort_by_key(|a| a.0)` left out.                                    *)
sort_by_key_unsorted(ids) == ids

(* `ids.sort_by_key(|a| a.0)`: a stable sort on the chunk index.           *)
RECURSIVE sort_by_key(_)
sort_by_key(ids) ==
    IF ids = <<>> THEN <<>>
    ELSE LET m == Min({ids[j].idx : j \in 1..Len(ids)})
             at == Min({j \in 1..Len(ids) : ids[j].idx = m})
         IN  <<ids[at]>> \o
             sort_by_key(SubSeq(ids, 1, at - 1) \o SubSeq(ids, at + 1, Len(ids)))

(* A collect that drops the Err items instead of stopping at the first.    *)
try_collect_skip_errors(chan) ==
    [ok |-> TRUE, items |-> SelectSeq(chan, LAMBDA m : m.ok)]

(* `rx.try_collect::<Vec<(usize, BlockID)>>().await?`: the first Err item  *)
(* of the closed channel ends the collect with that error.                 *)
try_collect(chan) ==
    IF \E j \in 1..Len(chan) : ~chan[j].ok
    THEN [ok |-> FALSE, items |-> <<>>]
    ELSE [ok |-> TRUE, items |-> chan]

(* The value store_bytes returns once every task has finished: the ids of  *)
(* the collected items in index order, or the error of the collect.        *)
store_bytes_result(chan) ==
    LET c == try_collect(chan) IN
    IF ~c.ok THEN [ok |-> FALSE, ids |-> <<>>]
    ELSE LET ids == sort_by_key(c.items)
         IN  [ok |-> TRUE, ids |-> [j \in 1..Len(ids) |-> ids[j].id]]

SbIdx == {i \in 1..Len(sb.stream) : TRUE}

SbActive == {i \in SbIdx : sb.pc[i] \in {"tx", "file"}}

(* store_bytes is called with a stream.                                    *)
SbBegin(stream) ==
    /\ engine = "sled"
    /\ sb.st = "off"
    /\ sb' = [NoStore EXCEPT !.st = "run", !.stream = stream,
                             !.pc = [i \in 1..Len(stream) |-> "new"]]
    /\ UNCHANGED <<engine, block_tree, path_tree, bucket, disk, put, del, last,
                   calls, tx_lock, ingests, round, tenants, rb, listing,
                   pager, ms, bcalls, router, us, reader, ss, peer, wbf,
                   scan, ui>>

(* for_each_concurrent takes the next item of the stream while fewer than  *)
(* CONCURRENT_TASKS tasks are in flight; the task of an Err item sends the *)
(* error and returns.  enumerate() numbers the items from 0.               *)
SbPoll ==
    /\ sb.st = "run"
    /\ sb.next <= Len(sb.stream)
    /\ Cardinality(SbActive) < CONCURRENT_TASKS
    /\ LET i == sb.next IN
       IF sb.stream[i] = StreamErr
       THEN sb' = [sb EXCEPT !.next = i + 1, !.pc[i] = "done",
                             !.chan = Append(@, SendErr(i - 1)),
                             !.failed = @ \cup {<<i, "stream">>}]
       ELSE sb' = [sb EXCEPT !.next = i + 1, !.pc[i] = "tx"]
    /\ UNCHANGED <<engine, block_tree, path_tree, bucket, disk, put, del, last,
                   calls, tx_lock, ingests, round, tenants, rb, listing,
                   pager, ms, bcalls, router, us, reader, ss, peer, wbf,
                   scan, ui>>

(* The transaction of a chunk task: a storage error is sent as Err, a      *)
(* block that is already known is reported at once, a new block goes on to *)
(* be written.                                                             *)
SbTx(i, storage_err) ==
    /\ sb.st = "run"
    /\ i \in SbIdx
    /\ sb.pc[i] = "tx"
    /\ storage_err => Cardinality(sb.failed) < MaxFaults
    /\ LET block_hash == sb.stream[i]
           r == CasFS_store_bytes_tx(block_tree, path_tree, block_hash,
                                     ChunkLen(block_hash))
       IN  IF storage_err
           THEN /\ sb' = [sb EXCEPT !.pc[i] = "done",
                                    !.chan = Append(@, SendErr(i - 1)),
                                    !.failed = @ \cup {<<i, "tx">>}]
                /\ UNCHANGED <<block_tree, path_tree>>
           ELSE IF r.panic
           THEN /\ sb' = [sb EXCEPT !.st = "panic"]
                /\ UNCHANGED <<block_tree, path_tree>>
           ELSE /\ block_tree' = r.blocks
                /\ path_tree' = r.paths
                /\ sb' = [sb EXCEPT
                            !.pc[i] = IF r.is_new THEN "file" ELSE "done",
                            !.committed = @ \cup {i},
                            !.chan = IF r.is_new THEN @
                                     ELSE Append(@, SendOk(i - 1, block_hash))]
    /\ UNCHANGED <<engine, bucket, disk, put, del, last,
                   calls, tx_lock, ingests, round, tenants, rb, listing,
                   pager, ms, bcalls, router, us, reader, ss, peer, wbf,
                   scan, ui>>

(* The rest of a chunk task: load the block again, create the directory,   *)
(* write the file.  An error of block_map.get is sent and ends the task;   *)
(* an error of create_dir_all or of write is sent and the task goes on, so *)
(* that Ok((idx, block_hash)) is sent after it.                            *)
SbWrite(i, outcome) ==
    /\ sb.st = "run"
    /\ i \in SbIdx
    /\ sb.pc[i] = "file"
    /\ outcome # "ok" => Cardinality(sb.failed) < MaxFaults
    /\ LET block_hash == sb.stream[i]
           block == block_tree[block_hash]
           errs == CASE outcome = "ok" -> <<>>
                     [] outcome = "dir_write_err" ->
                            <<SendErr(i - 1), SendErr(i - 1)>>
                     [] OTHER -> <<SendErr(i - 1)>>
           sent == IF outcome = "get_err" THEN errs
                   ELSE Append(errs, SendOk(i - 1, block_hash))
       IN  /\ disk' = IF outcome \in {"ok", "dir_err"}
                      THEN Insert(disk, disk_path(block.path), block_hash)
                      ELSE disk
           /\ sb' = [sb EXCEPT !.pc[i] = "done",
                               !.chan = @ \o sent,
                               !.failed = IF outcome = "ok" THEN @
                                          ELSE @ \cup {<<i, outcome>>}]
    /\ UNCHANGED <<engine, block_tree, path_tree, bucket, put, del, last,
                   calls, tx_lock, ingests, round, tenants, rb, listing,
                   pager, ms, bcalls, router, us, reader, ss, peer, wbf,
                   scan, ui>>

(* Every item was taken and every task has finished: the channel is closed *)
(* and store_bytes returns.                                                *)
SbReturn ==
    /\ sb.st = "run"
    /\ sb.next > Len(sb.stream)
    /\ SbActive = {}
    /\ sb' = [sb EXCEPT !.st = "done", !.ret = store_bytes_result(sb.chan)]
    /\ UNCHANGED <<engine, block_tree, path_tree, bucket, disk, put, del, last,
                   calls, tx_lock, ingests, round, tenants, rb, listing,
                   pager, ms, bcalls, router, us, reader, ss, peer, wbf,
                   scan, ui>>

NextStore ==
    \/ \E stream \in Streams : SbBegin(stream)
    \/ SbPoll
    \/ \E i \in 1..MaxChunks, storage_err \in BOOLEAN : SbTx(i, storage_err)
    \/ \E i \in 1..MaxChunks, outcome \in WriteOutcomes : SbWrite(i, outcome)
    \/ SbReturn

SpecStore == InitSled /\ [][NextStore]_vars


(***************************************************************************)
(* Specification SpecUnlink: CasFS::delete_object (cas/fs.rs) with a       *)
(* remove_file that can fail, after puts that completed.                   *)
(***************************************************************************)

(* A completed put on the sled engine: store_bytes of every chunk, the     *)
(* files of the new blocks, then the object record.                        *)
UnlinkPut(key, payload) ==
    /\ del.st = "idle"
    /\ LET r == write_blocks(engine, block_tree, path_tree, payload)
       IN  /\ ~r.panic
           /\ \A h \in DOMAIN r.blocks : r.blocks[h].rc <= MaxRc
           /\ block_tree' = r.blocks
           /\ path_tree' = r.paths
           /\ disk' = write_files(disk, r.blocks,
                                  DOMAIN r.blocks \ DOMAIN block_tree)
    /\ bucket' = Insert(bucket, key, payload)
    /\ last' = NoCall
    /\ UNCHANGED <<engine, put, del, calls, tx_lock, ingests, round, tenants, sb, rb, listing,
                   pager, ms, bcalls, router, us, reader, ss, peer, wbf,
                   scan, ui>>

(* delete_object: the transaction over (bucket, block_map); with nothing   *)
(* collected the call returns Ok(()).                                      *)
UnlinkDelete(key) ==
    /\ del.st = "idle"
    /\ LET r == CasFS_delete_object_tx(bucket, block_tree, key)
       IN  /\ bucket' = r.bucket
           /\ block_tree' = r.blocks
           /\ del' = IF r.to_delete = <<>> THEN IdleDel
                     ELSE [st |-> "unlink", todo |-> r.to_delete]
           /\ last' = [NoCall EXCEPT !.op = IF r.to_delete = <<>>
                                            THEN "delete_object" ELSE "none",
                                     !.key = key]
    /\ UNCHANGED <<engine, path_tree, disk, put, calls, tx_lock, ingests, round,
                   tenants, sb, rb, listing, pager, ms, bcalls, router, us,
                   reader, ss, peer, wbf, scan, ui>>

(* delete_object: `remove_file(..).await.expect("Could not delete file")`  *)
(* for the next collected block.  An Err of remove_file (always when the   *)
(* file is missing) panics: the call ends there without a return value.    *)
UnlinkRemoveFile(io_error) ==
    /\ del.st = "unlink"
    /\ LET f == disk_path(Head(del.todo).path) IN
       IF f \in DOMAIN disk /\ ~io_error
       THEN /\ disk' = Remove(disk, f)
            /\ del' = [del EXCEPT !.st = "path"]
            /\ UNCHANGED last
       ELSE /\ del' = [del EXCEPT !.st = "idle"]
            /\ last' = [last EXCEPT !.op = "delete_object", !.panic = TRUE]
            /\ UNCHANGED disk
    /\ UNCHANGED <<engine, block_tree, path_tree, bucket, put, calls, tx_lock,
                   ingests, round, tenants, sb, rb, listing, pager, ms,
                   bcalls, router, us, reader, ss, peer, wbf, scan, ui>>

(* delete_object: path_map.remove of the unlinked block; after the last    *)
(* collected block the call returns Ok(()).                                *)
UnlinkRemovePath ==
    /\ del.st = "path"
    /\ path_tree' = Remove(path_tree, Head(del.todo).path)
    /\ del' = IF Tail(del.todo) = <<>> THEN IdleDel
              ELSE [st |-> "unlink", todo |-> Tail(del.todo)]
    /\ last' = IF Tail(del.todo) = <<>>
               THEN [last EXCEPT !.op = "delete_object"] ELSE last
    /\ UNCHANGED <<engine, block_tree, bucket, disk, put, calls, tx_lock, ingests,
                   round, tenants, sb, rb, listing, pager, ms, bcalls,
                   router, us, reader, ss, peer, wbf, scan, ui>>

NextUnlink ==
    \/ \E o \in Puts : UnlinkPut(o[1], o[2])
    \/ \E key \in Keys : UnlinkDelete(key)
    \/ \E io_error \in BOOLEAN : UnlinkRemoveFile(io_error)
    \/ UnlinkRemovePath

SpecUnlink == InitSled /\ [][NextUnlink]_vars


(***************************************************************************)
(* Specification SpecRollback: one FjallNoTransaction at a time            *)
(* (metastore/stores/fjall_notx.rs): write_block calls whose partition     *)
(* operations can fail, then commit or rollback.                           *)
(***************************************************************************)

(* write_block calls made through one transaction.                         *)
MaxCalls == 2

(* rollback removing the staged blocks only.                               *)
FjallNoTransaction_rollback_blocks_only(f, blocks, paths) ==
    [blocks |-> [h \in DOMAIN blocks \ {f.inserted_blocks[j] :
                                          j \in 1..Len(f.inserted_blocks)}
                   |-> blocks[h]],
     paths |-> paths]

(* FjallNoTransaction::rollback: every id of inserted_blocks is removed    *)
(* from the block partition, every path of inserted_paths from the path    *)
(* partition (the removals succeed).                                       *)
FjallNoTransaction_rollback(f, blocks, paths) ==
    [blocks |-> [h \in DOMAIN blocks \ {f.inserted_blocks[j] :
                                          j \in 1..Len(f.inserted_blocks)}
                   |-> blocks[h]],
     paths |-> [p \in DOMAIN paths \ {f.inserted_paths[j] :
                                        j \in 1..Len(f.inserted_paths)}
                  |-> paths[p]]]

(* begin_transaction: FjallNoTransaction::new.                             *)
RbBegin ==
    /\ engine = "fjall_notx"
    /\ rb.st = "off"
    /\ rb' = [NoTx EXCEPT !.st = "open",
                          !.before = [blocks |-> block_tree, paths |-> path_tree]]
    /\ UNCHANGED <<engine, block_tree, path_tree, bucket, disk, put, del, last,
                   calls, tx_lock, ingests, round, tenants, sb, listing,
                   pager, ms, bcalls, router, us, reader, ss, peer, wbf,
                   scan, ui>>

(* write_block is called on the open transaction.                          *)
RbCall(block_hash) ==
    /\ rb.st = "open"
    /\ rb.n < MaxCalls
    /\ block_hash \in DOMAIN block_tree => block_tree[block_hash].rc < MaxRc
    /\ rb' = [rb EXCEPT
                !.st = "call", !.n = @ + 1,
                !.f = [FjallNoTransaction_new(block_hash, ChunkLen(block_hash), FALSE)
                         EXCEPT !.inserted_blocks = rb.f.inserted_blocks,
                                !.inserted_paths = rb.f.inserted_paths]]
    /\ UNCHANGED <<engine, block_tree, path_tree, bucket, disk, put, del, last,
                   calls, tx_lock, ingests, round, tenants, sb, listing,
                   pager, ms, bcalls, router, us, reader, ss, peer, wbf,
                   scan, ui>>

(* The next partition operation of the call succeeds.                      *)
RbStep ==
    /\ rb.st = "call"
    /\ LET s == FjallNoTransaction_write_block_step(rb.f, block_tree, path_tree)
       IN  /\ block_tree' = s.blocks
           /\ path_tree' = s.paths
           /\ rb' = [rb EXCEPT !.f = s.f,
                               !.st = IF s.f.pc = "ret" THEN "open" ELSE "call"]
    /\ UNCHANGED <<engine, bucket, disk, put, del, last,
                   calls, tx_lock, ingests, round, tenants, sb, listing,
                   pager, ms, bcalls, router, us, reader, ss, peer, wbf,
                   scan, ui>>

(* The next partition operation of the call (get or insert) returns an     *)
(* error: write_block returns Err, nothing is written by that operation.   *)
RbFail ==
    /\ rb.st = "call"
    /\ rb' = [rb EXCEPT !.st = "failed"]
    /\ UNCHANGED <<engine, block_tree, path_tree, bucket, disk, put, del, last,
                   calls, tx_lock, ingests, round, tenants, sb, listing,
                   pager, ms, bcalls, router, us, reader, ss, peer, wbf,
                   scan, ui>>

(* The caller rolls the transaction back after the failed write_block.     *)
RbRollback ==
    /\ rb.st = "failed"
    /\ LET r == FjallNoTransaction_rollback(rb.f, block_tree, path_tree)
       IN  /\ block_tree' = r.blocks
           /\ path_tree' = r.paths
    /\ rb' = [rb EXCEPT !.st = "rolled"]
    /\ UNCHANGED <<engine, bucket, disk, put, del, last,
                   calls, tx_lock, ingests, round, tenants, sb, listing,
                   pager, ms, bcalls, router, us, reader, ss, peer, wbf,
                   scan, ui>>

(* FjallNoTransaction::commit: Ok(()), everything written stays.           *)
RbCommit ==
    /\ rb.st = "open"
    /\ rb.n > 0
    /\ rb' = NoTx
    /\ UNCHANGED <<engine, block_tree, path_tree, bucket, disk, put, del, last,
                   calls, tx_lock, ingests, round, tenants, sb, listing,
                   pager, ms, bcalls, router, us, reader, ss, peer, wbf,
                   scan, ui>>

(* The rolled back transaction is dropped; the next one can begin.         *)
RbDrop ==
    /\ rb.st = "rolled"
    /\ rb' = NoTx
    /\ UNCHANGED <<engine, block_tree, path_tree, bucket, disk, put, del, last,
                   calls, tx_lock, ingests, round, tenants, sb, listing,
                   pager, ms, bcalls, router, us, reader, ss, peer, wbf,
                   scan, ui>>

NextRollback ==
    \/ RbBegin
    \/ \E block_hash \in BlockIDs : RbCall(block_hash)
    \/ RbStep
    \/ RbFail
    \/ RbRollback
    \/ RbCommit
    \/ RbDrop

SpecRollback == InitNotx /\ [][NextRollback]_vars


(***************************************************************************)
(* Specification SpecRange: FjallTree::range_filter                        *)
(* (metastore/stores/fjall.rs) over the keys of one bucket partition.      *)
(* Keys are byte strings; byte 0 is the NUL byte range_filter appends.     *)
(***************************************************************************)

(* Longest key, and longest argument, in bytes.                            *)
MaxKeyLen == 2

(* Keys in the bucket.                                                     *)
MaxKeys == 2

Bytes == {0, 1}

Strings == UNION {[1..n -> Bytes] : n \in 0..MaxKeyLen}

(* Option<String>: None is the empty tuple, Some(s) the tuple holding s.   *)
None == <<>>

Some(s) == <<s>>

Options == {None} \cup {Some(s) : s \in Strings}

(* `a < b` on String / byte slices: lexicographic order on the bytes.      *)
RECURSIVE StrLess(_, _)
StrLess(a, b) ==
    IF b = <<>> THEN FALSE
    ELSE IF a = <<>> THEN TRUE
    ELSE IF Head(a) # Head(b) THEN Head(a) < Head(b)
    ELSE StrLess(Tail(a), Tail(b))

(* str::starts_with *)
starts_with(s, p) == Len(p) <= Len(s) /\ SubSeq(s, 1, Len(p)) = p

(* The order in which a partition hands out its keys: ascending bytes.     *)
RECURSIVE partition_iter(_)
partition_iter(keys) ==
    IF keys = {} THEN <<>>
    ELSE LET k == CHOOSE x \in keys : \A y \in keys : x = y \/ StrLess(x, y)
         IN  <<k>> \o partition_iter(keys \ {k})

(* read_tx.prefix(&self.partition, prefix) *)
read_tx_prefix(keys, p) == partition_iter({k \in keys : starts_with(k, p)})

(* read_tx.range(&self.partition, from..) *)
read_tx_range(keys, from) ==
    partition_iter({k \in keys : k = from \/ StrLess(from, k)})

(* Iterator::skip_while(|k| k <= ctsa) *)
RECURSIVE skip_while(_, _)
skip_while(it, ctsa) ==
    IF it = <<>> THEN <<>>
    ELSE IF Head(it) = ctsa \/ StrLess(Head(it), ctsa)
    THEN skip_while(Tail(it), ctsa)
    ELSE it

(* range_filter skipping the keys below ctsa but not ctsa itself.          *)
range_filter_keep_ctsa(keys, start_after, prefix, continuation_token) ==
    LET ctsa0 == IF continuation_token # None /\ start_after # None
                 THEN IF StrLess(continuation_token[1], start_after[1])
                      THEN start_after ELSE continuation_token
                 ELSE IF continuation_token # None THEN continuation_token
                 ELSE start_after
        it == IF prefix # None THEN read_tx_prefix(keys, prefix[1])
              ELSE partition_iter(keys)
    IN  IF ctsa0 = None THEN it
        ELSE SelectSeq(it, LAMBDA k : k = ctsa0[1] \/ StrLess(ctsa0[1], k))

(* range_filter scanning from ctsa itself (no NUL byte appended) when no   *)
(* prefix is given.                                                        *)
range_filter_from_ctsa(keys, start_after, prefix, continuation_token) ==
    LET ctsa0 == IF continuation_token # None /\ start_after # None
                 THEN IF StrLess(continuation_token[1], start_after[1])
                      THEN start_after ELSE continuation_token
                 ELSE IF continuation_token # None THEN continuation_token
                 ELSE start_after
        after == prefix # None /\ ctsa0 # None
                 /\ StrLess(prefix[1], ctsa0[1])
                 /\ ~starts_with(ctsa0[1], prefix[1])
        before == prefix # None /\ ctsa0 # None /\ ~after
                  /\ StrLess(ctsa0[1], prefix[1])
        ctsa == IF before THEN None ELSE ctsa0
        base_iter == IF after THEN <<>>
                     ELSE IF prefix # None THEN read_tx_prefix(keys, prefix[1])
                     ELSE IF ctsa # None THEN read_tx_range(keys, ctsa[1])
                     ELSE partition_iter(keys)
    IN  IF prefix # None /\ ctsa # None THEN skip_while(base_iter, ctsa[1])
        ELSE base_iter

(* FjallTree::range_filter: the keys it yields, in the order it yields     *)
(* them (every key is yielded with the object stored under it).            *)
range_filter(keys, start_after, prefix, continuation_token) ==
    LET ctsa0 == IF continuation_token # None /\ start_after # None
                 THEN IF StrLess(continuation_token[1], start_after[1])
                      THEN start_after ELSE continuation_token
                 ELSE IF continuation_token # None THEN continuation_token
                 ELSE start_after
        after == prefix # None /\ ctsa0 # None
                 /\ StrLess(prefix[1], ctsa0[1])
                 /\ ~starts_with(ctsa0[1], prefix[1])
        before == prefix # None /\ ctsa0 # None /\ ~after
                  /\ StrLess(ctsa0[1], prefix[1])
        ctsa == IF before THEN None ELSE ctsa0
        base_iter == IF after THEN <<>>
                     ELSE IF prefix # None THEN read_tx_prefix(keys, prefix[1])
                     ELSE IF ctsa # None
                     THEN read_tx_range(keys, Append(ctsa[1], 0))
                     ELSE partition_iter(keys)
    IN  IF prefix # None /\ ctsa # None THEN skip_while(base_iter, ctsa[1])
        ELSE base_iter

(* FjallTree::insert of an object record under a key of the bucket.        *)
RangeInsert(key) ==
    /\ engine = "fjall"
    /\ key \notin DOMAIN bucket
    /\ Cardinality(DOMAIN bucket) < MaxKeys
    /\ bucket' = Insert(bucket, key, <<>>)
    /\ listing' = NoListing
    /\ UNCHANGED <<engine, block_tree, path_tree, disk, put, del, last, calls,
                   tx_lock, ingests, round, tenants, sb, rb, pager, ms,
                   bcalls, router, us, reader, ss, peer, wbf, scan, ui>>

(* range_filter is called on the bucket and its iterator is drained (one   *)
(* call is kept per content of the bucket).                                *)
RangeFilter(start_after, prefix, continuation_token) ==
    /\ engine = "fjall"
    /\ listing.st = "off"
    /\ listing' = [st |-> "done", start_after |-> start_after,
                   prefix |-> prefix, continuation_token |-> continuation_token,
                   out |-> range_filter(DOMAIN bucket, start_after, prefix,
                                        continuation_token)]
    /\ UNCHANGED <<engine, block_tree, path_tree, bucket, disk, put, del, last,
                   calls, tx_lock, ingests, round, tenants, sb, rb, pager,
                   ms, bcalls, router, us, reader, ss, peer, wbf, scan, ui>>

NextRange ==
    \/ \E key \in Strings : RangeInsert(key)
    \/ \E start_after \in Options, prefix \in Options,
          continuation_token \in Options :
          RangeFilter(start_after, prefix, continuation_token)

SpecRange == InitTx /\ [][NextRange]_vars


(***************************************************************************)
(* Specification SpecPage: a bucket listed page by page through            *)
(* range_filter (fjall.rs and, with the same text, fjall_notx.rs): every   *)
(* call passes the last key of the previous page as continuation_token.    *)
(***************************************************************************)

(* Keys in the bucket that is paged through.                               *)
MaxPageKeys == 3

(* Largest page size.                                                      *)
MaxLimit == 2

(* Iterator::take(limit) *)
take(it, limit) == SubSeq(it, 1, IF Len(it) < limit THEN Len(it) ELSE limit)

(* An object record is inserted while no listing is in progress.           *)
PageInsert(key) ==
    /\ pager.st = "off"
    /\ key \notin DOMAIN bucket
    /\ Cardinality(DOMAIN bucket) < MaxPageKeys
    /\ bucket' = Insert(bucket, key, <<>>)
    /\ UNCHANGED <<engine, block_tree, path_tree, disk, put, del, last, calls,
                   tx_lock, ingests, round, tenants, sb, rb, listing, pager,
                   ms, bcalls, router, us, reader, ss, peer, wbf, scan, ui>>

(* The first page: range_filter(None, prefix, None).take(limit).           *)
PageFirst(prefix, limit) ==
    /\ pager.st = "off"
    /\ LET page == take(range_filter(DOMAIN bucket, None, prefix, None), limit)
       IN  pager' = [st |-> IF Len(page) < limit THEN "done" ELSE "more",
                     prefix |-> prefix, limit |-> limit,
                     continuation_token |->
                         IF page = <<>> THEN None ELSE Some(page[Len(page)]),
                     acc |-> page, pages |-> 1]
    /\ UNCHANGED <<engine, block_tree, path_tree, bucket, disk, put, del, last,
                   calls, tx_lock, ingests, round, tenants, sb, rb, listing,
                   ms, bcalls, router, us, reader, ss, peer, wbf, scan, ui>>

(* The next page: the last key of the previous page is the continuation    *)
(* token, prefix and limit are the same; a short page ends the listing.    *)
PageNext ==
    /\ pager.st = "more"
    /\ LET page == take(range_filter(DOMAIN bucket, None, pager.prefix,
                                     pager.continuation_token), pager.limit)
       IN  pager' = [pager EXCEPT
                       !.st = IF Len(page) < pager.limit THEN "done" ELSE "more",
                       !.continuation_token =
                           IF page = <<>> THEN @ ELSE Some(page[Len(page)]),
                       !.acc = @ \o page, !.pages = @ + 1]
    /\ UNCHANGED <<engine, block_tree, path_tree, bucket, disk, put, del, last,
                   calls, tx_lock, ingests, round, tenants, sb, rb, listing,
                   ms, bcalls, router, us, reader, ss, peer, wbf, scan, ui>>

NextPage ==
    \/ \E key \in Strings : PageInsert(key)
    \/ \E prefix \in Options, limit \in 1..MaxLimit : PageFirst(prefix, limit)
    \/ PageNext

SpecPage == InitTenant /\ [][NextPage]_vars


(***************************************************************************)
(* Specification SpecBucket: the bucket operations of one metastore        *)
(* (metastore/traits.rs, stores/fjall.rs, stores/fjall_notx.rs; the two    *)
(* stores have the same text here).  The registry is the _BUCKETS          *)
(* partition, a bucket's object tree the partition named like the bucket.  *)
(***************************************************************************)

(* Bucket names: one-byte strings, so that their order is the byte order.  *)
Names == {s \in Strings : Len(s) = 1}

(* keyspace.open_partition(name): opens the partition, creating it empty   *)
(* when the keyspace has none of that name.                                *)
get_partition(parts, name) ==
    IF name \in DOMAIN parts THEN parts ELSE Insert(parts, name, EmptyTree)

(* keyspace.partition_exists(bucket_name) *)
bucket_exists(m, name) == name \in DOMAIN m.parts

(* list_buckets: the records of the registry in key order (their names).   *)
list_buckets(m) == partition_iter(DOMAIN m.registry)

(* create_bucket, first half: bucket_exists; an existing bucket ends the   *)
(* call with BucketAlreadyExists.                                          *)
CreateBucketCheck(p, name) ==
    /\ bcalls[p].pc = "idle"
    /\ bcalls' = [bcalls EXCEPT ![p] =
                    IF bucket_exists(ms, name)
                    THEN [pc |-> "idle", name |-> name,
                          res |-> "BucketAlreadyExists"]
                    ELSE [pc |-> "insert", name |-> name, res |-> "none"]]
    /\ UNCHANGED <<engine, block_tree, path_tree, bucket, disk, put, del, last,
                   calls, tx_lock, ingests, round, tenants, sb, rb, listing,
                   pager, ms, router, us, reader, ss, peer, wbf, scan, ui>>

(* create_bucket, second half: insert_bucket (the record goes into the     *)
(* registry, then the partition is opened) and get_bucket_ext; Ok(()).     *)
(* The record carries the caller, standing for its creation time.          *)
CreateBucketInsert(p) ==
    /\ bcalls[p].pc = "insert"
    /\ LET name == bcalls[p].name IN
       ms' = [ms EXCEPT
                !.registry = Insert(@, name, [name |-> name, ctime |-> p]),
                !.parts = get_partition(@, name),
                !.inserted = @ \cup {name},
                !.created = Insert(@, name,
                                   IF name \in DOMAIN @ THEN @[name] + 1 ELSE 1)]
    /\ bcalls' = [bcalls EXCEPT ![p] = [@ EXCEPT !.pc = "idle", !.res = "Ok"]]
    /\ UNCHANGED <<engine, block_tree, path_tree, bucket, disk, put, del, last,
                   calls, tx_lock, ingests, round, tenants, sb, rb, listing,
                   pager, router, us, reader, ss, peer, wbf, scan, ui>>

(* drop_bucket: the partition is opened and deleted; the registry is not   *)
(* touched.                                                                *)
DropBucket(name) ==
    /\ \A p \in Creators : bcalls[p].pc = "idle"
    /\ ms' = [ms EXCEPT !.parts = Remove(get_partition(@, name), name),
                        !.inserted = @ \ {name},
                        !.created = Remove(@, name)]
    /\ bcalls' = [p \in Creators |-> IdleCreate]
    /\ UNCHANGED <<engine, block_tree, path_tree, bucket, disk, put, del, last,
                   calls, tx_lock, ingests, round, tenants, sb, rb, listing,
                   pager, router, us, reader, ss, peer, wbf, scan, ui>>

(* get_meta, get_bucket_ext, delete_object of a key that is not stored:    *)
(* each opens the partition of the name and reads from it.                 *)
ReadBucket(name) ==
    /\ ms' = [ms EXCEPT !.parts = get_partition(@, name)]
    /\ UNCHANGED <<engine, block_tree, path_tree, bucket, disk, put, del, last,
                   calls, tx_lock, ingests, round, tenants, sb, rb, listing,
                   pager, bcalls, router, us, reader, ss, peer, wbf, scan,
                   ui>>

(* insert_meta: the partition of the name is opened and the record stored. *)
InsertMeta(name, key) ==
    /\ ms' = [ms EXCEPT !.parts = LET parts == get_partition(@, name)
                                  IN  Insert(parts, name,
                                             Insert(parts[name], key, <<>>))]
    /\ UNCHANGED <<engine, block_tree, path_tree, bucket, disk, put, del, last,
                   calls, tx_lock, ingests, round, tenants, sb, rb, listing,
                   pager, bcalls, router, us, reader, ss, peer, wbf, scan,
                   ui>>

(* list_buckets is called.                                                 *)
ListBuckets ==
    /\ ms' = [ms EXCEPT !.listed = list_buckets(ms)]
    /\ UNCHANGED <<engine, block_tree, path_tree, bucket, disk, put, del, last,
                   calls, tx_lock, ingests, round, tenants, sb, rb, listing,
                   pager, bcalls, router, us, reader, ss, peer, wbf, scan,
                   ui>>

NextBucket ==
    \/ \E p \in Creators, name \in Names : CreateBucketCheck(p, name)
    \/ \E p \in Creators : CreateBucketInsert(p)
    \/ \E name \in Names : DropBucket(name)
    \/ \E name \in Names : ReadBucket(name)
    \/ \E name \in Names : InsertMeta(name, "k1")
    \/ ListBuckets

SpecBucket == InitTenant /\ [][NextBucket]_vars


(***************************************************************************)
(* Specification SpecBucketDelete: CasFS::bucket_delete (cas/fs.rs) on the *)
(* sled engine, over buckets that share the block tree.  ms.registry is    *)
(* the bucket metadata tree, ms.parts the object tree of every bucket.     *)
(***************************************************************************)

(* The payloads that are put.                                              *)
Payloads == {o[2] : o \in Puts}

(* bucket_delete without the refcount part: the record and the tree go,    *)
(* the blocks are not touched.                                             *)
CasFS_bucket_delete_drop_only(m, blocks, paths, files, bucket_name) ==
    [ms |-> [m EXCEPT !.registry = Remove(@, bucket_name),
                      !.parts = Remove(@, bucket_name)],
     blocks |-> blocks, paths |-> paths, disk |-> files]

(* The loop of bucket_delete: delete_object for every key of the bucket    *)
(* (its transaction, then remove_file and path_map.remove for every        *)
(* collected block).                                                       *)
RECURSIVE CasFS_bucket_delete_objects(_, _, _, _)
CasFS_bucket_delete_objects(bkt, blocks, paths, files) ==
    IF DOMAIN bkt = {}
    THEN [bucket |-> bkt, blocks |-> blocks, paths |-> paths, disk |-> files]
    ELSE LET key == CHOOSE k \in DOMAIN bkt : TRUE
             r == CasFS_delete_object_tx(bkt, blocks, key)
             u == unlink_all(files, paths, r.to_delete)
         IN  CasFS_bucket_delete_objects(r.bucket, r.blocks, u.paths, u.disk)

(* CasFS::bucket_delete: the metadata record is removed, every object of   *)
(* the bucket is deleted, the bucket tree is dropped.                      *)
CasFS_bucket_delete(m, blocks, paths, files, bucket_name) ==
    LET bkt == IF bucket_name \in DOMAIN m.parts THEN m.parts[bucket_name]
               ELSE EmptyTree
        r == CasFS_bucket_delete_objects(bkt, blocks, paths, files)
    IN  [ms |-> [m EXCEPT !.registry = Remove(@, bucket_name),
                          !.parts = Remove(@, bucket_name)],
         blocks |-> r.blocks, paths |-> r.paths, disk |-> r.disk]

(* A record is inserted into the bucket metadata tree.                     *)
BucketRegister(name) ==
    /\ name \notin DOMAIN ms.registry
    /\ ms' = [ms EXCEPT !.registry = Insert(@, name, [name |-> name, ctime |-> 0]),
                        !.parts = get_partition(@, name)]
    /\ last' = NoCall
    /\ UNCHANGED <<engine, block_tree, path_tree, bucket, disk, put, del,
                   calls, tx_lock, ingests, round, tenants, sb, rb, listing,
                   pager, bcalls, router, us, reader, ss, peer, wbf, scan,
                   ui>>

(* A completed put of a new key into a bucket: store_bytes of every chunk, *)
(* the files of the new blocks, the object record.                         *)
BucketPut(name, key, payload) ==
    /\ name \in DOMAIN ms.registry
    /\ key \notin DOMAIN ms.parts[name]
    /\ LET r == write_blocks(engine, block_tree, path_tree, payload)
       IN  /\ ~r.panic
           /\ \A h \in DOMAIN r.blocks : r.blocks[h].rc <= MaxRc
           /\ block_tree' = r.blocks
           /\ path_tree' = r.paths
           /\ disk' = write_files(disk, r.blocks,
                                  DOMAIN r.blocks \ DOMAIN block_tree)
    /\ ms' = [ms EXCEPT !.parts[name] = Insert(@, key, payload)]
    /\ last' = NoCall
    /\ UNCHANGED <<engine, bucket, put, del, calls, tx_lock, ingests, round,
                   tenants, sb, rb, listing, pager, bcalls, router, us,
                   reader, ss, peer, wbf, scan, ui>>

(* bucket_delete is called and runs to its end.                            *)
BucketDelete(name) ==
    /\ name \in DOMAIN ms.registry
    /\ LET r == CasFS_bucket_delete(ms, block_tree, path_tree, disk, name)
       IN  /\ ms' = r.ms
           /\ block_tree' = r.blocks
           /\ path_tree' = r.paths
           /\ disk' = r.disk
    /\ last' = [NoCall EXCEPT !.op = "bucket_delete"]
    /\ UNCHANGED <<engine, bucket, put, del, calls, tx_lock, ingests, round,
                   tenants, sb, rb, listing, pager, bcalls, router, us,
                   reader, ss, peer, wbf, scan, ui>>

NextBucketDelete ==
    \/ \E name \in Names : BucketRegister(name)
    \/ \E name \in Names, key \in Keys, payload \in Payloads :
          BucketPut(name, key, payload)
    \/ \E name \in Names : BucketDelete(name)

SpecBucketDelete == InitSled /\ [][NextBucketDelete]_vars


(***************************************************************************)
(* Specification SpecRouter: UserRouter::get_casfs_by_user_id              *)
(* (s3-cas/src/auth/router.rs) called from several threads; casfs_cache is *)
(* a HashMap behind an RwLock.  A handle is named by its user and by the   *)
(* number of the construction that made it.                                *)
(***************************************************************************)

(* The lookup under the write lock left out: a miss on the fast path       *)
(* always constructs.                                                      *)
double_check_skipped(cache, user_id) == FALSE

(* `if let Some(casfs) = cache.get(user_id)` under the write lock.         *)
double_check(cache, user_id) == user_id \in DOMAIN cache

(* The handle is returned to the caller.                                   *)
RouterReturn(r, p, handle) ==
    [r EXCEPT !.call[p] = [pc |-> "idle", user_id |-> r.call[p].user_id,
                           ret |-> handle],
              !.returned = Insert(@, r.call[p].user_id,
                                  (IF r.call[p].user_id \in DOMAIN @
                                   THEN @[r.call[p].user_id] ELSE {})
                                      \cup {handle})]

(* get_casfs_by_user_id is called: casfs_cache.read() is taken (no writer  *)
(* holds the lock).                                                        *)
RouterReadLock(p, user_id) ==
    /\ router.call[p].pc = "idle"
    /\ router.writer = 0
    /\ router' = [router EXCEPT
                    !.readers = @ \cup {p},
                    !.call[p] = [pc |-> "read", user_id |-> user_id, ret |-> <<>>]]
    /\ UNCHANGED <<engine, block_tree, path_tree, bucket, disk, put, del, last,
                   calls, tx_lock, ingests, round, tenants, sb, rb, listing,
                   pager, ms, bcalls, us, reader, ss, peer, wbf, scan, ui>>

(* The fast path: a hit returns the cached handle; the read guard is       *)
(* dropped at the end of the block either way.                             *)
RouterFastPath(p) ==
    /\ router.call[p].pc = "read"
    /\ LET user_id == router.call[p].user_id
           r == [router EXCEPT !.readers = @ \ {p}]
       IN  router' = IF user_id \in DOMAIN router.cache
                     THEN RouterReturn(r, p, router.cache[user_id])
                     ELSE [r EXCEPT !.call[p].pc = "miss"]
    /\ UNCHANGED <<engine, block_tree, path_tree, bucket, disk, put, del, last,
                   calls, tx_lock, ingests, round, tenants, sb, rb, listing,
                   pager, ms, bcalls, us, reader, ss, peer, wbf, scan, ui>>

(* Cache miss: casfs_cache.write() is taken (no reader, no writer).        *)
RouterWriteLock(p) ==
    /\ router.call[p].pc = "miss"
    /\ router.writer = 0
    /\ router.readers = {}
    /\ router' = [router EXCEPT !.writer = p, !.call[p].pc = "write"]
    /\ UNCHANGED <<engine, block_tree, path_tree, bucket, disk, put, del, last,
                   calls, tx_lock, ingests, round, tenants, sb, rb, listing,
                   pager, ms, bcalls, us, reader, ss, peer, wbf, scan, ui>>

(* Under the write lock: the double check, then create_casfs_for_user and  *)
(* cache.insert; the write guard is dropped on return.                     *)
RouterSlowPath(p) ==
    /\ router.call[p].pc = "write"
    /\ LET user_id == router.call[p].user_id
           r == [router EXCEPT !.writer = 0]
       IN  IF double_check(router.cache, user_id)
           THEN router' = RouterReturn(r, p, router.cache[user_id])
           ELSE LET n == IF user_id \in DOMAIN router.built
                         THEN router.built[user_id] + 1 ELSE 1
                    casfs == <<user_id, n>>
                IN  router' = RouterReturn(
                        [r EXCEPT !.built = Insert(@, user_id, n),
                                  !.cache = Insert(@, user_id, casfs)],
                        p, casfs)
    /\ UNCHANGED <<engine, block_tree, path_tree, bucket, disk, put, del, last,
                   calls, tx_lock, ingests, round, tenants, sb, rb, listing,
                   pager, ms, bcalls, us, reader, ss, peer, wbf, scan, ui>>

NextRouter ==
    \/ \E p \in Procs, user_id \in Users : RouterReadLock(p, user_id)
    \/ \E p \in Procs : RouterFastPath(p)
    \/ \E p \in Procs : RouterWriteLock(p)
    \/ \E p \in Procs : RouterSlowPath(p)

SpecRouter == InitTenant /\ [][NextRouter]_vars


(***************************************************************************)
(* Specification SpecUsers: UserStore (auth/user_store.rs) called from two *)
(* threads.  us.users is the _USERS tree, us.by_login and us.by_s3_key the *)
(* two index trees; every get, insert and remove on a tree is one step.    *)
(***************************************************************************)

(* The records create_user is called with.                                 *)
UserRecords ==
    {[user_id |-> "u1", ui_login |-> "l1", s3_access_key |-> "a1",
      ui_password_hash |-> 0],
     [user_id |-> "u2", ui_login |-> "l1", s3_access_key |-> "a2",
      ui_password_hash |-> 0],
     [user_id |-> "u2", ui_login |-> "l2", s3_access_key |-> "a2",
      ui_password_hash |-> 0]}

UserIds == {r.user_id : r \in UserRecords}

(* get_user_by_id *)
get_user_by_id(u, user_id) == user_id \in DOMAIN u.users

(* get_user_by_ui_login: the index entry, then get_user_by_id.             *)
get_user_by_ui_login(u, ui_login) ==
    ui_login \in DOMAIN u.by_login /\ get_user_by_id(u, u.by_login[ui_login])

(* get_user_by_s3_key: the index entry, then get_user_by_id.               *)
get_user_by_s3_key(u, s3_access_key) ==
    /\ s3_access_key \in DOMAIN u.by_s3_key
    /\ get_user_by_id(u, u.by_s3_key[s3_access_key])

(* create_user: the three existence checks; any hit ends the call with an  *)
(* error.                                                                  *)
CreateUserCheck(p, user) ==
    /\ us.call[p].pc = "idle"
    /\ us' = [us EXCEPT !.call[p] =
                IF \/ get_user_by_id(us, user.user_id)
                   \/ get_user_by_ui_login(us, user.ui_login)
                   \/ get_user_by_s3_key(us, user.s3_access_key)
                THEN [pc |-> "idle", op |-> "create_user_err", user |-> user]
                ELSE [pc |-> "ins_user", op |-> "create_user", user |-> user]]
    /\ UNCHANGED <<engine, block_tree, path_tree, bucket, disk, put, del, last,
                   calls, tx_lock, ingests, round, tenants, sb, rb, listing,
                   pager, ms, bcalls, router, reader, ss, peer, wbf, scan,
                   ui>>

(* create_user: users_tree.insert, login_tree.insert, s3_key_tree.insert.  *)
CreateUserInsert(p) ==
    /\ us.call[p].pc \in {"ins_user", "ins_login", "ins_s3_key"}
    /\ LET user == us.call[p].user IN
       us' = CASE us.call[p].pc = "ins_user" ->
                    [us EXCEPT !.users = Insert(@, user.user_id, user),
                               !.call[p].pc = "ins_login"]
               [] us.call[p].pc = "ins_login" ->
                    [us EXCEPT !.by_login = Insert(@, user.ui_login, user.user_id),
                               !.call[p].pc = "ins_s3_key"]
               [] us.call[p].pc = "ins_s3_key" ->
                    [us EXCEPT !.by_s3_key =
                                   Insert(@, user.s3_access_key, user.user_id),
                               !.call[p].pc = "idle"]
    /\ UNCHANGED <<engine, block_tree, path_tree, bucket, disk, put, del, last,
                   calls, tx_lock, ingests, round, tenants, sb, rb, listing,
                   pager, ms, bcalls, router, reader, ss, peer, wbf, scan,
                   ui>>

(* delete_user and update_password: get_user_by_id; a missing user ends    *)
(* the call with an error, otherwise the record is kept by the caller.     *)
UserRead(p, op, user_id) ==
    /\ us.call[p].pc = "idle"
    /\ us' = [us EXCEPT !.call[p] =
                IF get_user_by_id(us, user_id)
                THEN [pc |-> IF op = "delete_user" THEN "rm_user" ELSE "set_password",
                      op |-> op, user |-> us.users[user_id]]
                ELSE [pc |-> "idle", op |-> "not_found",
                      user |-> [NoUserRecord EXCEPT !.user_id = user_id]]]
    /\ UNCHANGED <<engine, block_tree, path_tree, bucket, disk, put, del, last,
                   calls, tx_lock, ingests, round, tenants, sb, rb, listing,
                   pager, ms, bcalls, router, reader, ss, peer, wbf, scan,
                   ui>>

(* delete_user: users_tree.remove, login_tree.remove, s3_key_tree.remove   *)
(* with the login and the key of the record that was read.                 *)
DeleteUserRemove(p) ==
    /\ us.call[p].pc \in {"rm_user", "rm_login", "rm_s3_key"}
    /\ LET user == us.call[p].user IN
       us' = CASE us.call[p].pc = "rm_user" ->
                    [us EXCEPT !.users = Remove(@, user.user_id),
                               !.call[p].pc = "rm_login"]
               [] us.call[p].pc = "rm_login" ->
                    [us EXCEPT !.by_login = Remove(@, user.ui_login),
                               !.call[p].pc = "rm_s3_key"]
               [] us.call[p].pc = "rm_s3_key" ->
                    [us EXCEPT !.by_s3_key = Remove(@, user.s3_access_key),
                               !.call[p].pc = "idle"]
    /\ UNCHANGED <<engine, block_tree, path_tree, bucket, disk, put, del, last,
                   calls, tx_lock, ingests, round, tenants, sb, rb, listing,
                   pager, ms, bcalls, router, reader, ss, peer, wbf, scan,
                   ui>>

(* update_password: the record that was read gets the new hash and is      *)
(* written back to the primary tree.                                       *)
UpdatePasswordWrite(p) ==
    /\ us.call[p].pc = "set_password"
    /\ LET user == [us.call[p].user EXCEPT !.ui_password_hash = 1] IN
       us' = [us EXCEPT !.users = Insert(@, user.user_id, user),
                        !.call[p].pc = "idle"]
    /\ UNCHANGED <<engine, block_tree, path_tree, bucket, disk, put, del, last,
                   calls, tx_lock, ingests, round, tenants, sb, rb, listing,
                   pager, ms, bcalls, router, reader, ss, peer, wbf, scan,
                   ui>>

NextUsers ==
    \/ \E p \in Creators, user \in UserRecords : CreateUserCheck(p, user)
    \/ \E p \in Creators : CreateUserInsert(p)
    \/ \E p \in Creators, user_id \in UserIds,
          op \in {"delete_user", "update_password"} : UserRead(p, op, user_id)
    \/ \E p \in Creators : DeleteUserRemove(p)
    \/ \E p \in Creators : UpdatePasswordWrite(p)

SpecUsers == InitTenant /\ [][NextUsers]_vars


(***************************************************************************)
(* Specification SpecRead: a BlockStream over the blocks of one object     *)
(* with a RangeRequest (constructed in s3-cas/src/retrieve.rs).  A byte of *)
(* the object is named by its offset; a block is given by its size.        *)
(***************************************************************************)

(* Blocks of the object that is read.                                      *)
MaxBlocks == 2

(* Largest block, in bytes.                                                *)
MaxBlockSize == 2

(* The (path, size) lists get_object_paths returns: the sizes.             *)
BlockLists == UNION {[1..n -> 1..MaxBlockSize] : n \in 1..MaxBlocks}

(* `paths.iter().map(|(_, size)| size).sum()` *)
RECURSIVE block_size(_)
block_size(paths) ==
    IF paths = <<>> THEN 0 ELSE Head(paths) + block_size(Tail(paths))

(* RangeRequest: All, FromStart(n), Last(n), Range(start, end_inclusive).  *)
RangeRequests(size) ==
    {[kind |-> "All", a |-> 0, b |-> 0]}
        \cup {[kind |-> k, a |-> n, b |-> 0] :
                 k \in {"FromStart", "Last"}, n \in 1..(size + 1)}
        \cup {[kind |-> "Range", a |-> r[1], b |-> r[2]] :
                 r \in {x \in (0..(size + 1)) \X (0..(size + 1)) : x[1] <= x[2]}}

(* First offset a request asks for.                                        *)
range_start(range, size) ==
    CASE range.kind = "Last" -> IF range.a >= size THEN 0 ELSE size - range.a
      [] range.kind = "Range" -> range.a
      [] OTHER -> 0

(* The offset after the last one a request asks for.                       *)
range_end(range, size) ==
    CASE range.kind = "FromStart" -> range.a
      [] range.kind = "Range" -> range.b + 1
      [] OTHER -> size

(* A stream that emits every block whole, whatever the request.            *)
block_slice_whole(cum, len, lo, hi) == [j \in 1..len |-> cum + j - 1]

(* The slice of the block at offsets [cum, cum + len) that lies in         *)
(* [lo, hi): the bytes emitted for that block.                             *)
block_slice(cum, len, lo, hi) ==
    LET from == IF lo > cum THEN lo ELSE cum
        to == IF hi < cum + len THEN hi ELSE cum + len
    IN  IF from >= to THEN <<>> ELSE [j \in 1..(to - from) |-> from + j - 1]

(* BlockStream::new(paths, block_size, range, ..): a request that starts   *)
(* at or after the end of the object is InvalidRange.                      *)
ReadOpen(paths, range) ==
    /\ reader.st = "off"
    /\ range \in RangeRequests(block_size(paths))
    /\ reader' = [NoReader EXCEPT
                    !.st = IF range_start(range, block_size(paths))
                                >= block_size(paths)
                           THEN "InvalidRange" ELSE "open",
                    !.paths = paths, !.size = block_size(paths),
                    !.range = range]
    /\ UNCHANGED <<engine, block_tree, path_tree, bucket, disk, put, del, last,
                   calls, tx_lock, ingests, round, tenants, sb, rb, listing,
                   pager, ms, bcalls, router, us, ss, peer, wbf, scan, ui>>

(* block_stream.next(): the next block is intersected with the request;    *)
(* its overlapping slice is emitted as one buffer, a block outside the     *)
(* request is skipped.                                                     *)
ReadNext ==
    /\ reader.st = "open"
    /\ LET len == reader.paths[reader.i]
           buf == block_slice(reader.cum, len,
                              range_start(reader.range, reader.size),
                              range_end(reader.range, reader.size))
       IN  reader' = [reader EXCEPT
                        !.out = IF buf = <<>> THEN @ ELSE Append(@, buf),
                        !.cum = @ + len,
                        !.i = @ + 1,
                        !.st = IF reader.i = Len(reader.paths) THEN "done"
                               ELSE "open"]
    /\ UNCHANGED <<engine, block_tree, path_tree, bucket, disk, put, del, last,
                   calls, tx_lock, ingests, round, tenants, sb, rb, listing,
                   pager, ms, bcalls, router, us, ss, peer, wbf, scan, ui>>

(* The stream is dropped; another one can be constructed.                  *)
ReadClose ==
    /\ reader.st \in {"done", "InvalidRange"}
    /\ reader' = NoReader
    /\ UNCHANGED <<engine, block_tree, path_tree, bucket, disk, put, del, last,
                   calls, tx_lock, ingests, round, tenants, sb, rb, listing,
                   pager, ms, bcalls, router, us, ss, peer, wbf, scan, ui>>

NextRead ==
    \/ \E paths \in BlockLists :
          \E range \in RangeRequests(block_size(paths)) : ReadOpen(paths, range)
    \/ ReadNext
    \/ ReadClose

SpecRead == InitTenant /\ [][NextRead]_vars


(***************************************************************************)
(* Specification SpecSession: the in-memory SessionStore of                *)
(* src/auth/session.rs.  ss.sessions is the HashMap behind the RwLock,     *)
(* ss.now what Instant::now() returns, ss.pending a create_session that    *)
(* built its SessionData and waits for the write lock, ss.cleanup the      *)
(* retain loop of cleanup_expired (which holds the write lock), ss.ret the *)
(* last call that returned.  ss.issued (ids create_session returned, with  *)
(* their user) and ss.gone (ids removed by delete_session,                 *)
(* delete_user_sessions or cleanup_expired) record the history.            *)
(***************************************************************************)

(* Session ids generate_session_id can return.                             *)
MaxSessions == 3

(* Last instant of the clock.                                              *)
MaxTime == 3

(* `SessionStore::with_lifetime(lifetime)` *)
session_lifetime == 2

SessionIds == 1..MaxSessions

SessionUsers == {"user1", "user2"}

(* The map `f` without the keys in `ks`.                                   *)
without(f, ks) == [k \in DOMAIN f \ ks |-> f[k]]

(* `SessionData::new(user_id, lifetime)` *)
SessionData_new(user_id, lifetime, now) ==
    [user_id |-> user_id, created_at |-> now, expires_at |-> now + lifetime]

(* An expiry test that still accepts the session at its expiry instant.    *)
is_expired_after(session_data, now) == now > session_data.expires_at

(* `Instant::now() >= self.expires_at` *)
is_expired(session_data, now) == now >= session_data.expires_at

(* A retain that removes the sessions of every user.                       *)
retain_user_none(sessions, user_id) == <<>>

(* `sessions.retain(|_, session_data| session_data.user_id != user_id)` *)
retain_user(sessions, user_id) ==
    without(sessions, {k \in DOMAIN sessions : sessions[k].user_id = user_id})

(* A retain closure that keeps every session.                              *)
cleanup_keeps_all(session_data, now) == TRUE

(* The closure of `sessions.retain` in cleanup_expired: TRUE keeps.        *)
cleanup_keeps(session_data, now) == ~is_expired(session_data, now)

(* Time passes.                                                            *)
SessionTick ==
    /\ ss.now < MaxTime
    /\ ss' = [ss EXCEPT !.now = @ + 1]
    /\ UNCHANGED <<engine, block_tree, path_tree, bucket, disk, put, del, last,
                   calls, tx_lock, ingests, round, tenants, sb, rb, listing,
                   pager, ms, bcalls, router, us, reader, peer, wbf, scan,
                   ui>>

(* create_session, before the write lock: a fresh random session id and    *)
(* the SessionData with the expiry computed from the time read here.       *)
CreateSessionNew(user_id) ==
    /\ ss.pending = <<>>
    /\ \E session_id \in SessionIds \ DOMAIN ss.issued :
          ss' = [ss EXCEPT !.pending =
                    <<[session_id |-> session_id,
                       data |-> SessionData_new(user_id, session_lifetime,
                                                ss.now)]>>]
    /\ UNCHANGED <<engine, block_tree, path_tree, bucket, disk, put, del, last,
                   calls, tx_lock, ingests, round, tenants, sb, rb, listing,
                   pager, ms, bcalls, router, us, reader, peer, wbf, scan,
                   ui>>

(* create_session, under the write lock: insert and return the id.         *)
CreateSessionInsert ==
    /\ ss.pending # <<>>
    /\ ss.cleanup.st = "idle"
    /\ LET p == ss.pending[1] IN
       ss' = [ss EXCEPT
                !.sessions = (p.session_id :> p.data) @@ @,
                !.issued = (p.session_id :> p.data.user_id) @@ @,
                !.pending = <<>>,
                !.ret = [NoSessionCall EXCEPT
                           !.op = "create_session",
                           !.arg = <<p.data.user_id>>,
                           !.val = <<p.session_id>>]]
    /\ UNCHANGED <<engine, block_tree, path_tree, bucket, disk, put, del, last,
                   calls, tx_lock, ingests, round, tenants, sb, rb, listing,
                   pager, ms, bcalls, router, us, reader, peer, wbf, scan,
                   ui>>

(* get_session(session_id), also validate_session.                         *)
GetSession(session_id) ==
    /\ ss.cleanup.st = "idle"
    /\ ss' = [ss EXCEPT
                !.ret = [NoSessionCall EXCEPT
                           !.op = "get_session",
                           !.arg = <<session_id>>,
                           !.val = IF session_id \in DOMAIN ss.sessions
                                   THEN (IF is_expired(ss.sessions[session_id],
                                                       ss.now)
                                         THEN <<>>
                                         ELSE <<ss.sessions[session_id].user_id>>)
                                   ELSE <<>>,
                           !.at = ss.now]]
    /\ UNCHANGED <<engine, block_tree, path_tree, bucket, disk, put, del, last,
                   calls, tx_lock, ingests, round, tenants, sb, rb, listing,
                   pager, ms, bcalls, router, us, reader, peer, wbf, scan,
                   ui>>

(* delete_session(session_id) *)
DeleteSession(session_id) ==
    /\ ss.cleanup.st = "idle"
    /\ ss' = [ss EXCEPT
                !.sessions = without(@, {session_id}),
                !.gone = @ \cup ({session_id} \cap DOMAIN ss.sessions),
                !.ret = [NoSessionCall EXCEPT
                           !.op = "delete_session",
                           !.arg = <<session_id>>,
                           !.val = <<session_id \in DOMAIN ss.sessions>>]]
    /\ UNCHANGED <<engine, block_tree, path_tree, bucket, disk, put, del, last,
                   calls, tx_lock, ingests, round, tenants, sb, rb, listing,
                   pager, ms, bcalls, router, us, reader, peer, wbf, scan,
                   ui>>

(* A refresh that extends every stored session, expired or not.            *)
RefreshSession_stored(session_id) ==
    /\ ss.cleanup.st = "idle"
    /\ LET ok == session_id \in DOMAIN ss.sessions
       IN  ss' = [ss EXCEPT
                    !.sessions = IF ok
                                 THEN [@ EXCEPT ![session_id].expires_at =
                                          ss.now + session_lifetime]
                                 ELSE @,
                    !.ret = [NoSessionCall EXCEPT
                               !.op = "refresh_session",
                               !.arg = <<session_id>>,
                               !.val = <<ok>>]]
    /\ UNCHANGED <<engine, block_tree, path_tree, bucket, disk, put, del, last,
                   calls, tx_lock, ingests, round, tenants, sb, rb, listing,
                   pager, ms, bcalls, router, us, reader, peer, wbf, scan,
                   ui>>

(* refresh_session(session_id) *)
RefreshSession(session_id) ==
    /\ ss.cleanup.st = "idle"
    /\ LET ok == /\ session_id \in DOMAIN ss.sessions
                 /\ ~is_expired(ss.sessions[session_id], ss.now)
       IN  ss' = [ss EXCEPT
                    !.sessions = IF ok
                                 THEN [@ EXCEPT ![session_id].expires_at =
                                          ss.now + session_lifetime]
                                 ELSE @,
                    !.ret = [NoSessionCall EXCEPT
                               !.op = "refresh_session",
                               !.arg = <<session_id>>,
                               !.val = <<ok>>]]
    /\ UNCHANGED <<engine, block_tree, path_tree, bucket, disk, put, del, last,
                   calls, tx_lock, ingests, round, tenants, sb, rb, listing,
                   pager, ms, bcalls, router, us, reader, peer, wbf, scan,
                   ui>>

(* delete_user_sessions(user_id) *)
DeleteUserSessions(user_id) ==
    /\ ss.cleanup.st = "idle"
    /\ LET kept == retain_user(ss.sessions, user_id) IN
       ss' = [ss EXCEPT
                !.sessions = kept,
                !.gone = @ \cup (DOMAIN ss.sessions \ DOMAIN kept),
                !.ret = [NoSessionCall EXCEPT
                           !.op = "delete_user_sessions",
                           !.arg = <<user_id>>,
                           !.val = <<Cardinality(DOMAIN ss.sessions)
                                       - Cardinality(DOMAIN kept)>>,
                           !.before = ss.sessions]]
    /\ UNCHANGED <<engine, block_tree, path_tree, bucket, disk, put, del, last,
                   calls, tx_lock, ingests, round, tenants, sb, rb, listing,
                   pager, ms, bcalls, router, us, reader, peer, wbf, scan,
                   ui>>

(* cleanup_expired: the write lock is taken, initial_count is read.        *)
CleanupBegin ==
    /\ ss.cleanup.st = "idle"
    /\ ss' = [ss EXCEPT
                !.cleanup = [st |-> "retain",
                             initial_count |-> Cardinality(DOMAIN ss.sessions),
                             todo |-> DOMAIN ss.sessions,
                             before |-> ss.sessions,
                             seen |-> <<>>],
                !.ret = NoSessionCall]
    /\ UNCHANGED <<engine, block_tree, path_tree, bucket, disk, put, del, last,
                   calls, tx_lock, ingests, round, tenants, sb, rb, listing,
                   pager, ms, bcalls, router, us, reader, peer, wbf, scan,
                   ui>>

(* cleanup_expired: retain visits one session; its closure reads the clock.*)
CleanupStep(session_id) ==
    /\ ss.cleanup.st = "retain"
    /\ session_id \in ss.cleanup.todo
    /\ LET keep == cleanup_keeps(ss.sessions[session_id], ss.now) IN
       ss' = [ss EXCEPT
                !.sessions = IF keep THEN @ ELSE without(@, {session_id}),
                !.gone = IF keep THEN @ ELSE @ \cup {session_id},
                !.cleanup.todo = @ \ {session_id},
                !.cleanup.seen = (session_id :> ss.now) @@ @]
    /\ UNCHANGED <<engine, block_tree, path_tree, bucket, disk, put, del, last,
                   calls, tx_lock, ingests, round, tenants, sb, rb, listing,
                   pager, ms, bcalls, router, us, reader, peer, wbf, scan,
                   ui>>

(* cleanup_expired: `removed = initial_count - sessions.len()`, returned.  *)
CleanupReturn ==
    /\ ss.cleanup.st = "retain"
    /\ ss.cleanup.todo = {}
    /\ ss' = [ss EXCEPT
                !.cleanup = IdleCleanup,
                !.ret = [NoSessionCall EXCEPT
                           !.op = "cleanup_expired",
                           !.val = <<ss.cleanup.initial_count
                                       - Cardinality(DOMAIN ss.sessions)>>,
                           !.before = ss.cleanup.before,
                           !.seen = ss.cleanup.seen]]
    /\ UNCHANGED <<engine, block_tree, path_tree, bucket, disk, put, del, last,
                   calls, tx_lock, ingests, round, tenants, sb, rb, listing,
                   pager, ms, bcalls, router, us, reader, peer, wbf, scan,
                   ui>>

NextSession ==
    \/ SessionTick
    \/ \E user_id \in SessionUsers : CreateSessionNew(user_id)
    \/ CreateSessionInsert
    \/ \E session_id \in SessionIds : GetSession(session_id)
    \/ \E session_id \in SessionIds : DeleteSession(session_id)
    \/ \E session_id \in SessionIds : RefreshSession(session_id)
    \/ \E user_id \in SessionUsers : DeleteUserSessions(user_id)
    \/ CleanupBegin
    \/ \E session_id \in SessionIds : CleanupStep(session_id)
    \/ CleanupReturn

SpecSession == InitTx /\ [][NextSession]_vars


(***************************************************************************)
(* Specification SpecNotxPrefix: two puts on FjallStoreNotx, each of one   *)
(* chunk; the BlockIDs differ and share their leading byte.                *)
(***************************************************************************)

PrefixPayloads == {<<Id(k)>> : k \in 1..BLOCKID_SIZE}

NextNotxPrefix ==
    \/ \E p \in Putters, payload \in PrefixPayloads : NotxPutStart(p, payload)
    \/ \E p \in Putters : NotxStep(p)
    \/ \E p \in Putters : NotxCommit(p)
    \/ \E p \in Putters : NotxFile(p)
    \/ \E p \in Putters : NotxMeta(p)

SpecNotxPrefix == InitNotx /\ [][NextNotxPrefix]_vars


(***************************************************************************)
(* Specification SpecStoreRace: one store_bytes call (the actions of       *)
(* SpecStore) and a chunk task of a second store_bytes call running on the *)
(* same CasFS at the same time.                                            *)
(***************************************************************************)

(* The streams the observed call ingests: one or two chunks.               *)
RaceStreams == {Stream(n, 2, 0) : n \in 1..2}

(* The transaction of the second call's chunk task (fs.rs 309-348): a new  *)
(* block goes on to be written, a known one is reported at once.           *)
PeerTx(block_hash) ==
    /\ engine = "sled"
    /\ peer.pc = "off"
    /\ LET r == CasFS_store_bytes_tx(block_tree, path_tree, block_hash,
                                     ChunkLen(block_hash))
       IN  /\ ~r.panic
           /\ block_tree' = r.blocks
           /\ path_tree' = r.paths
           /\ peer' = [pc |-> IF r.is_new THEN "file" ELSE "done",
                       block_hash |-> block_hash]
    /\ UNCHANGED <<engine, bucket, disk, put, del, last, calls, tx_lock,
                   ingests, round, tenants, sb, rb, listing, pager, ms,
                   bcalls, router, us, reader, ss, wbf, scan, ui>>

(* The rest of the second call's chunk task (fs.rs 372-410): the file is   *)
(* written, or the write fails and the error is sent to that call.         *)
PeerWrite(written) ==
    /\ peer.pc = "file"
    /\ disk' = IF written
               THEN Insert(disk, disk_path(block_tree[peer.block_hash].path),
                           peer.block_hash)
               ELSE disk
    /\ peer' = [peer EXCEPT !.pc = IF written THEN "done" ELSE "failed"]
    /\ UNCHANGED <<engine, block_tree, path_tree, bucket, put, del, last,
                   calls, tx_lock, ingests, round, tenants, sb, rb, listing,
                   pager, ms, bcalls, router, us, reader, ss, wbf, scan, ui>>

NextStoreRace ==
    \/ \E stream \in RaceStreams : SbBegin(stream)
    \/ SbPoll
    \/ \E i \in 1..MaxChunks, storage_err \in BOOLEAN : SbTx(i, storage_err)
    \/ \E i \in 1..MaxChunks, outcome \in WriteOutcomes : SbWrite(i, outcome)
    \/ SbReturn
    \/ \E block_hash \in {Id(BLOCKID_SIZE), Id(BLOCKID_SIZE - 1)} :
          PeerTx(block_hash)
    \/ \E written \in BOOLEAN : PeerWrite(written)

SpecStoreRace == InitSled /\ [][NextStoreRace]_vars


(***************************************************************************)
(* Specification SpecTxFail: one FjallStore::write_block call at a time    *)
(* (metastore/stores/fjall.rs) whose reads, commit and persist can return  *)
(* an error.                                                               *)
(***************************************************************************)

(* write_block is called: write_tx() is opened.                            *)
WbCall(block_hash, key_has_block) ==
    /\ engine = "fjall"
    /\ wbf.st = "idle"
    /\ block_hash \in DOMAIN block_tree => block_tree[block_hash].rc < MaxRc
    /\ wbf' = [IdleWrite EXCEPT
                 !.st = "get", !.hash = block_hash,
                 !.khb = key_has_block,
                 !.before = [blocks |-> block_tree, paths |-> path_tree]]
    /\ UNCHANGED <<engine, block_tree, path_tree, bucket, disk, put, del, last,
                   calls, tx_lock, ingests, round, tenants, sb, rb, listing,
                   pager, ms, bcalls, router, us, reader, ss, peer, scan, ui>>

(* tx.get(&blocks, ..), the path probes and the tx.insert calls succeed:   *)
(* the writes are staged in the transaction.                               *)
WbStage ==
    /\ wbf.st = "get"
    /\ LET r == FjallStore_stage(block_tree, path_tree, wbf.hash,
                                 ChunkLen(wbf.hash), wbf.khb)
       IN  wbf' = [wbf EXCEPT !.st = "staged", !.is_new = r.is_new,
                              !.staged = r.staged]
    /\ UNCHANGED <<engine, block_tree, path_tree, bucket, disk, put, del, last,
                   calls, tx_lock, ingests, round, tenants, sb, rb, listing,
                   pager, ms, bcalls, router, us, reader, ss, peer, scan, ui>>

(* tx.get(&blocks, ..) returns Err (res is Err, the empty transaction is   *)
(* committed), or a tx.get(&paths, ..) of the probe loop returns Err (the  *)
(* function returns, the transaction is dropped): OtherDBError.            *)
WbGetErr ==
    /\ wbf.st = "get"
    /\ wbf' = [wbf EXCEPT !.st = "err", !.err = "OtherDBError"]
    /\ UNCHANGED <<engine, block_tree, path_tree, bucket, disk, put, del, last,
                   calls, tx_lock, ingests, round, tenants, sb, rb, listing,
                   pager, ms, bcalls, router, us, reader, ss, peer, scan, ui>>

(* commit_persist: tx.commit() returns Err, nothing is applied:            *)
(* TransactionError.                                                       *)
WbCommitErr ==
    /\ wbf.st = "staged"
    /\ wbf' = [wbf EXCEPT !.st = "err", !.err = "TransactionError"]
    /\ UNCHANGED <<engine, block_tree, path_tree, bucket, disk, put, del, last,
                   calls, tx_lock, ingests, round, tenants, sb, rb, listing,
                   pager, ms, bcalls, router, us, reader, ss, peer, scan, ui>>

(* commit_persist: tx.commit() succeeds and the staged writes reach the    *)
(* partitions; keyspace.persist(SyncAll) then returns Ok (the call returns *)
(* res) or Err (the call returns PersistError).                            *)
WbCommit(persisted) ==
    /\ wbf.st = "staged"
    /\ LET h == wbf.hash
           w == wbf.staged
       IN  /\ block_tree' = IF w.block_w THEN Insert(block_tree, h, w.block)
                            ELSE block_tree
           /\ path_tree' = IF w.path_w THEN Insert(path_tree, w.block.path, h)
                           ELSE path_tree
    /\ wbf' = IF persisted THEN [wbf EXCEPT !.st = "ok"]
              ELSE [wbf EXCEPT !.st = "err", !.err = "PersistError"]
    /\ UNCHANGED <<engine, bucket, disk, put, del, last,
                   calls, tx_lock, ingests, round, tenants, sb, rb, listing,
                   pager, ms, bcalls, router, us, reader, ss, peer, scan, ui>>

(* The call has returned; the next one can be made.                        *)
WbReturn ==
    /\ wbf.st \in {"ok", "err"}
    /\ wbf' = IdleWrite
    /\ UNCHANGED <<engine, block_tree, path_tree, bucket, disk, put, del, last,
                   calls, tx_lock, ingests, round, tenants, sb, rb, listing,
                   pager, ms, bcalls, router, us, reader, ss, peer, scan, ui>>

NextTxFail ==
    \/ \E block_hash \in BlockIDs, key_has_block \in BOOLEAN :
          WbCall(block_hash, key_has_block)
    \/ WbStage
    \/ WbGetErr
    \/ WbCommitErr
    \/ \E persisted \in BOOLEAN : WbCommit(persisted)
    \/ WbReturn

SpecTxFail == InitTx /\ [][NextTxFail]_vars


(***************************************************************************)
(* Specification SpecKeys: the iterator get_bucket_keys returns            *)
(* (FjallTree and FjallTreeNotx, the same code) over one bucket partition, *)
(* with keys removed while it runs.                                        *)
(***************************************************************************)

(* The next range starting at the last key itself.                         *)
next_from_same(k) == k

(* `let mut next = k.clone(); next.push(0); next..`: the least byte string *)
(* greater than k.                                                         *)
next_from(k) == Append(k, 0)

(* A key is inserted before the iteration.                                 *)
KeysInsert(key) ==
    /\ scan.st = "off"
    /\ key \notin DOMAIN bucket
    /\ Cardinality(DOMAIN bucket) < MaxPageKeys
    /\ bucket' = Insert(bucket, key, <<>>)
    /\ UNCHANGED <<engine, block_tree, path_tree, disk, put, del, last, calls,
                   tx_lock, ingests, round, tenants, sb, rb, listing, pager,
                   ms, bcalls, router, us, reader, ss, peer, wbf, scan, ui>>

(* get_bucket_keys(): `last_key = None`, nothing is read yet.              *)
KeysBegin ==
    /\ scan.st = "off"
    /\ scan' = [NoScan EXCEPT !.st = "run", !.begun = DOMAIN bucket]
    /\ UNCHANGED <<engine, block_tree, path_tree, bucket, disk, put, del, last,
                   calls, tx_lock, ingests, round, tenants, sb, rb, listing,
                   pager, ms, bcalls, router, us, reader, ss, peer, wbf, ui>>

(* One call of the from_fn closure: the first key of the range that starts *)
(* after last_key is yielded and remembered; an empty range ends the       *)
(* iterator.                                                               *)
KeysNext ==
    /\ scan.st = "run"
    /\ LET from == IF scan.last_key = None THEN <<>>
                   ELSE next_from(scan.last_key[1])
           range == read_tx_range(DOMAIN bucket, from)
       IN  scan' = IF range = <<>> THEN [scan EXCEPT !.st = "done"]
                   ELSE [scan EXCEPT !.last_key = Some(Head(range)),
                                     !.out = Append(@, Head(range))]
    /\ UNCHANGED <<engine, block_tree, path_tree, bucket, disk, put, del, last,
                   calls, tx_lock, ingests, round, tenants, sb, rb, listing,
                   pager, ms, bcalls, router, us, reader, ss, peer, wbf, ui>>

(* The consumer removes a key the iterator has already yielded.            *)
KeysRemove(key) ==
    /\ scan.st = "run"
    /\ key \in DOMAIN bucket
    /\ \E j \in 1..Len(scan.out) : scan.out[j] = key
    /\ bucket' = Remove(bucket, key)
    /\ UNCHANGED <<engine, block_tree, path_tree, disk, put, del, last, calls,
                   tx_lock, ingests, round, tenants, sb, rb, listing, pager,
                   ms, bcalls, router, us, reader, ss, peer, wbf, scan, ui>>

(* The finished iterator is dropped.                                       *)
KeysDrop ==
    /\ scan.st = "done"
    /\ scan' = NoScan
    /\ UNCHANGED <<engine, block_tree, path_tree, bucket, disk, put, del, last,
                   calls, tx_lock, ingests, round, tenants, sb, rb, listing,
                   pager, ms, bcalls, router, us, reader, ss, peer, wbf, ui>>

NextKeys ==
    \/ \E key \in Strings : KeysInsert(key)
    \/ KeysBegin
    \/ KeysNext
    \/ \E key \in Strings : KeysRemove(key)
    \/ KeysDrop

SpecKeys == InitTenant /\ [][NextKeys]_vars


(***************************************************************************)
(* Specification SpecUi: the multi-user web UI (s3-cas/src/http_ui).       *)
(* ui.users is the UserStore (user_id = ui_login; the stored password is   *)
(* "old" until a password change makes it "new"), ui.sessions the          *)
(* SessionStore (via: the password its login verified, or "setup"),        *)
(* ui.reqs the handler each client's request is in.  ui.changed records    *)
(* the users whose password change has completed, ui.logged_out the        *)
(* sessions whose cookie a completed POST /logout carried.  Sessions live  *)
(* DEFAULT_SESSION_LIFETIME (24 hours) and do not expire here.             *)
(***************************************************************************)

UiLogins == {"admin", "root"}

Passwords == {"old", "new"}

(* `matches!(path, "/login" | "/setup-admin" | "/health")` *)
is_public_path(path) == path \in {"/login", "/setup-admin", "/health"}

(* The handler route_request runs for a POST to `path`, given whether the  *)
(* request's session cookie is valid (handle_authenticated_request has no  *)
(* arm for POST /logout).                                                  *)
route_request(path, authenticated) ==
    IF is_public_path(path)
    THEN CASE path = "/login" -> "handle_login_submit"
           [] path = "/setup-admin" -> "handle_setup_admin"
           [] path = "/logout" -> "handle_logout"
           [] OTHER -> "not_found"
    ELSE IF ~authenticated THEN "login_redirect_response"
    ELSE CASE path = "/profile/password" -> "handle_change_password"
           [] OTHER -> "not_found"

(* session_store.create_session(user_id) for a login that verified `via`.  *)
ui_create_session(u, user_id, via) ==
    LET session_id == CHOOSE id \in SessionIds : id \notin u.issued IN
    [u EXCEPT !.sessions = (session_id :> [user_id |-> user_id, via |-> via]) @@ @,
              !.issued = @ \cup {session_id}]

(* handle_setup_admin: user_store.count_users() is 0, the handler goes on  *)
(* to read the form; otherwise "Setup already completed".                  *)
SetupCount(c, ui_login) ==
    /\ ui.reqs[c].pc = "idle"
    /\ route_request("/setup-admin", FALSE) = "handle_setup_admin"
    /\ ui' = IF Cardinality(DOMAIN ui.users) > 0 THEN ui
             ELSE [ui EXCEPT !.reqs[c] = [pc |-> "setup", user |-> ui_login,
                                          via |-> "setup"]]
    /\ UNCHANGED <<engine, block_tree, path_tree, bucket, disk, put, del, last,
                   calls, tx_lock, ingests, round, tenants, sb, rb, listing,
                   pager, ms, bcalls, router, us, reader, ss, peer, wbf, scan>>

(* handle_setup_admin: user_store.create_user(user_record) (refused when   *)
(* the login exists), then create_session for the new admin.               *)
SetupCreate(c) ==
    /\ ui.reqs[c].pc = "setup"
    /\ Cardinality(ui.issued) < MaxSessions
    /\ LET ui_login == ui.reqs[c].user IN
       ui' = IF ui_login \in DOMAIN ui.users
             THEN [ui EXCEPT !.reqs[c] = IdleRequest]
             ELSE [ui_create_session(
                       [ui EXCEPT !.users = (ui_login :> "old") @@ @],
                       ui_login, "setup")
                     EXCEPT !.reqs[c] = IdleRequest]
    /\ UNCHANGED <<engine, block_tree, path_tree, bucket, disk, put, del, last,
                   calls, tx_lock, ingests, round, tenants, sb, rb, listing,
                   pager, ms, bcalls, router, us, reader, ss, peer, wbf, scan>>

(* handle_login_submit: user_store.authenticate(username, password).       *)
LoginAuthenticate(c, username, password) ==
    /\ ui.reqs[c].pc = "idle"
    /\ route_request("/login", FALSE) = "handle_login_submit"
    /\ ui' = IF username \in DOMAIN ui.users /\ ui.users[username] = password
             THEN [ui EXCEPT !.reqs[c] = [pc |-> "login", user |-> username,
                                          via |-> password]]
             ELSE ui
    /\ UNCHANGED <<engine, block_tree, path_tree, bucket, disk, put, del, last,
                   calls, tx_lock, ingests, round, tenants, sb, rb, listing,
                   pager, ms, bcalls, router, us, reader, ss, peer, wbf, scan>>

(* handle_login_submit: session_store.create_session(user.user_id).        *)
LoginCreateSession(c) ==
    /\ ui.reqs[c].pc = "login"
    /\ Cardinality(ui.issued) < MaxSessions
    /\ ui' = [ui_create_session(ui, ui.reqs[c].user, ui.reqs[c].via)
                EXCEPT !.reqs[c] = IdleRequest]
    /\ UNCHANGED <<engine, block_tree, path_tree, bucket, disk, put, del, last,
                   calls, tx_lock, ingests, round, tenants, sb, rb, listing,
                   pager, ms, bcalls, router, us, reader, ss, peer, wbf, scan>>

(* POST /profile/password with a valid session cookie and the current      *)
(* password (verify_password is Ok(true)), or POST                         *)
(* /admin/users/{target}/password by an admin: the handler goes on to      *)
(* update the password of `target`.                                        *)
ChangeBegin(c, session_id, target) ==
    /\ ui.reqs[c].pc = "idle"
    /\ session_id \in DOMAIN ui.sessions
    /\ target \in DOMAIN ui.users
    /\ ui.users[target] = "old"
    /\ target = ui.sessions[session_id].user_id =>
          route_request("/profile/password", TRUE) = "handle_change_password"
    /\ ui' = [ui EXCEPT !.reqs[c] = [pc |-> "verified", user |-> target,
                                     via |-> ""]]
    /\ UNCHANGED <<engine, block_tree, path_tree, bucket, disk, put, del, last,
                   calls, tx_lock, ingests, round, tenants, sb, rb, listing,
                   pager, ms, bcalls, router, us, reader, ss, peer, wbf, scan>>

(* user_store.update_password(user_id, new_password) *)
ChangeUpdate(c) ==
    /\ ui.reqs[c].pc = "verified"
    /\ ui' = [ui EXCEPT !.users[ui.reqs[c].user] = "new",
                        !.reqs[c].pc = "updated"]
    /\ UNCHANGED <<engine, block_tree, path_tree, bucket, disk, put, del, last,
                   calls, tx_lock, ingests, round, tenants, sb, rb, listing,
                   pager, ms, bcalls, router, us, reader, ss, peer, wbf, scan>>

(* session_store.delete_user_sessions(user_id); the response is sent.      *)
ChangeInvalidate(c) ==
    /\ ui.reqs[c].pc = "updated"
    /\ LET user_id == ui.reqs[c].user IN
       ui' = [ui EXCEPT
                !.sessions = [id \in {i \in DOMAIN ui.sessions :
                                         ui.sessions[i].user_id # user_id}
                                |-> ui.sessions[id]],
                !.changed = @ \cup {user_id},
                !.reqs[c] = IdleRequest]
    /\ UNCHANGED <<engine, block_tree, path_tree, bucket, disk, put, del, last,
                   calls, tx_lock, ingests, round, tenants, sb, rb, listing,
                   pager, ms, bcalls, router, us, reader, ss, peer, wbf, scan>>

(* POST /logout carrying the cookie of a valid session: route_request      *)
(* picks the handler; handle_logout deletes the session.                   *)
PostLogout(c, session_id) ==
    /\ ui.reqs[c].pc = "idle"
    /\ session_id \in DOMAIN ui.sessions
    /\ session_id \notin ui.logged_out
    /\ ui' = [ui EXCEPT
                !.sessions = IF route_request("/logout", TRUE) = "handle_logout"
                             THEN [id \in DOMAIN @ \ {session_id} |-> @[id]]
                             ELSE @,
                !.logged_out = @ \cup {session_id}]
    /\ UNCHANGED <<engine, block_tree, path_tree, bucket, disk, put, del, last,
                   calls, tx_lock, ingests, round, tenants, sb, rb, listing,
                   pager, ms, bcalls, router, us, reader, ss, peer, wbf, scan>>

NextUi ==
    \/ \E c \in Clients, ui_login \in UiLogins : SetupCount(c, ui_login)
    \/ \E c \in Clients : SetupCreate(c)
    \/ \E c \in Clients, username \in UiLogins, password \in Passwords :
          LoginAuthenticate(c, username, password)
    \/ \E c \in Clients : LoginCreateSession(c)
    \/ \E c \in Clients, session_id \in SessionIds, target \in UiLogins :
          ChangeBegin(c, session_id, target)
    \/ \E c \in Clients : ChangeUpdate(c)
    \/ \E c \in Clients : ChangeInvalidate(c)
    \/ \E c \in Clients, session_id \in SessionIds : PostLogout(c, session_id)

SpecUi == InitTx /\ [][NextUi]_vars


(***************************************************************************)
(* Properties                                                              *)
(***************************************************************************)

A == Id(BLOCKID_SIZE)

B == Id(BLOCKID_SIZE - 1)

(* C1: after any sequence of completed puts (write_block for every chunk,  *)
(* then insert_meta) and delete_object calls, every BlockID listed in a    *)
(* stored object is a key of the block tree.                               *)
C1_ObjectBlocksPresent ==
    \A key \in DOMAIN bucket :
        \A i \in 1..Len(bucket[key]) : bucket[key][i] \in DOMAIN block_tree

(* An object is stored and shares a block with an object that was deleted  *)
(* while the files of that delete are still being unlinked.                *)
C1_Witness ==
    /\ "k2" \in DOMAIN bucket
    /\ "k1" \notin DOMAIN bucket
    /\ del.st = "unlink"
    /\ put.st = "idle"

(* C2: every Block present in the block tree has rc >= 1; a Block whose    *)
(* last reference is dropped is removed, never stored with rc = 0.         *)
C2_RefcountPositive ==
    \A h \in DOMAIN block_tree : block_tree[h].rc >= 1

(* A delete_object dropped the last reference of a block and another block *)
(* stays behind.                                                           *)
C2_Witness ==
    /\ last.op = "delete_object"
    /\ last.to_delete # <<>>
    /\ \E h \in DOMAIN block_tree : block_tree[h].rc = 1

(* C3: write_block for a BlockID already in the block tree creates no new  *)
(* Block and no new path entry and returns is_new = false; it raises that  *)
(* Block's rc by exactly 1 when key_has_block is false and leaves the      *)
(* Block unchanged when key_has_block is true.                             *)
C3_WriteBlockDedup ==
    [][(last'.op = "write_block" /\ last'.hash \in DOMAIN block_tree) =>
          LET h == last'.hash IN
          /\ ~last'.is_new
          /\ DOMAIN block_tree' = DOMAIN block_tree
          /\ path_tree' = path_tree
          /\ \A g \in DOMAIN block_tree \ {h} : block_tree'[g] = block_tree[g]
          /\ block_tree'[h].path = block_tree[h].path
          /\ block_tree'[h].size = block_tree[h].size
          /\ block_tree'[h].rc =
                 block_tree[h].rc + (IF last'.khb THEN 0 ELSE 1)]_vars

(* A write_block with key_has_block = false found its block present and    *)
(* the block now holds two references.                                     *)
C3_Witness ==
    /\ last.op = "write_block"
    /\ ~last.is_new
    /\ ~last.khb
    /\ last.hash \in DOMAIN block_tree
    /\ block_tree[last.hash].rc = 2

(* C4: delete_object of an existing object removes the object record and,  *)
(* per BlockID occurrence in its block list, skips a missing Block,        *)
(* decrements rc when rc > 1, removes the Block and returns it in the      *)
(* to-delete list when rc = 1; the path tree is left unchanged.  Over the  *)
(* whole list: a Block referenced n times with rc > n keeps rc - n, a      *)
(* Block with rc <= n is removed and returned once.                        *)
C4_DeleteObjectMetadata ==
    [][(last'.op = "delete_object" /\ last'.key \in DOMAIN bucket) =>
          LET key == last'.key
              obj == bucket[key]
              to_delete == last'.to_delete
              gone == {h \in DOMAIN block_tree :
                          Occ(obj, h) > 0 /\ Occ(obj, h) >= block_tree[h].rc}
          IN  /\ DOMAIN bucket' = DOMAIN bucket \ {key}
              /\ \A k \in DOMAIN bucket' : bucket'[k] = bucket[k]
              /\ path_tree' = path_tree
              /\ DOMAIN block_tree' = DOMAIN block_tree \ gone
              /\ \A h \in DOMAIN block_tree' :
                     block_tree'[h] =
                         [block_tree[h] EXCEPT !.rc = @ - Occ(obj, h)]
              /\ Len(to_delete) = Cardinality(gone)
              /\ \A h \in gone :
                     \E i \in 1..Len(to_delete) :
                         to_delete[i] = [block_tree[h] EXCEPT !.rc = 1]]_vars

(* A delete_object returned one block to delete and left the other block   *)
(* of the store in the block tree.                                         *)
C4_Witness ==
    /\ last.op = "delete_object"
    /\ Len(last.to_delete) = 1
    /\ Cardinality(DOMAIN block_tree) = 1
    /\ last.key \notin DOMAIN bucket

(* C5: for every Block in the block tree the path tree maps the Block's    *)
(* path to the Block's BlockID, and no two Blocks in the block tree have   *)
(* the same path.                                                          *)
C5_PathTreeOwnsBlockPaths ==
    /\ \A h \in DOMAIN block_tree :
           /\ block_tree[h].path \in DOMAIN path_tree
           /\ path_tree[block_tree[h].path] = h
    /\ \A g, h \in DOMAIN block_tree :
           g # h => block_tree[g].path # block_tree[h].path

(* C6: for a BlockID absent from the block tree, write_block allocates the *)
(* shortest prefix BlockID[..i], i in 1..BLOCKID_SIZE inclusive, that is   *)
(* not a key of the path tree and inserts (prefix -> BlockID); the path    *)
(* has length 1..BLOCKID_SIZE; when no prefix is free an invariant         *)
(* violation is signalled and nothing is inserted.                         *)
C6_ShortestFreePrefix ==
    [][(last'.op = "write_block" /\ last'.hash \notin DOMAIN block_tree) =>
          LET h == last'.hash
              free == {i \in 1..BLOCKID_SIZE : Prefix(h, i) \notin DOMAIN path_tree}
          IN  IF free = {}
              THEN /\ last'.panic
                   /\ block_tree' = block_tree
                   /\ path_tree' = path_tree
              ELSE /\ ~last'.panic
                   /\ path_tree' = Insert(path_tree, Prefix(h, Min(free)), h)
                   /\ h \in DOMAIN block_tree'
                   /\ block_tree'[h].path = Prefix(h, Min(free))
                   /\ Len(block_tree'[h].path) \in 1..BLOCKID_SIZE]_vars

C9_TxWriteBlockSerialized ==
    \A h \in BlockIDs :
        LET done == {p \in Procs : calls[p].pc = "done" /\ calls[p].hash = h}
        IN  IF done = {} THEN h \notin DOMAIN block_tree
            ELSE /\ h \in DOMAIN block_tree
                 /\ block_tree[h].rc = Cardinality(done)
                 /\ Cardinality({q \in DOMAIN path_tree : path_tree[q] = h}) = 1
                 /\ Cardinality({p \in done : calls[p].is_new}) = 1

(* All callers wrote the same BlockID and all calls have returned.         *)
C9_Witness ==
    /\ \A p \in Procs : calls[p].pc = "done" /\ calls[p].hash = A
    /\ A \in DOMAIN block_tree
    /\ block_tree[A].rc = NumProcs

(* C10: on the non-transactional backend, two concurrent puts of the same  *)
(* payload to different keys leave each of its blocks present exactly once *)
(* with rc = 2, exactly one of the two write_block calls per block         *)
(* reporting is_new = true, and both object records listing the same       *)
(* BlockIDs in the same order.                                             *)
C10_NotxConcurrentIdenticalPut ==
    ( /\ \A p \in Putters : ingests[p].pc = "done"
      /\ ingests[1].payload = ingests[2].payload )
    => LET payload == ingests[1].payload IN
       /\ bucket["k1"] = payload
       /\ bucket["k2"] = payload
       /\ \A i \in 1..Len(payload) :
              /\ payload[i] \in DOMAIN block_tree
              /\ block_tree[payload[i]].rc = 2
              /\ Cardinality({p \in Putters : ingests[p].new[i]}) = 1

(* C11: on the transactional backend delete_object is atomic with respect  *)
(* to other deletes: a delete_object whose object has already been removed *)
(* by another call when its transaction runs observes the object as        *)
(* absent, returns an empty list and changes no refcount.                  *)
C11_DeleteAtomic ==
    [][\A p \in Procs :
          ( /\ calls[p].pc = "read"
            /\ calls'[p].pc = "done"
            /\ calls[p].key \notin DOMAIN bucket )
          => (block_tree' = block_tree /\ calls'[p].to_delete = <<>>)]_vars

(* C12: copy_object reads the Object stored at the source key, raises the  *)
(* rc of each of its BlockIDs by 1 (once per occurrence) and writes the    *)
(* Object at the destination key, leaving the source record in place;      *)
(* afterwards deleting either copy leaves every block of the other copy in *)
(* the block tree.                                                         *)
C12_CopyObjectBumps ==
    /\ [][(last'.op = "copy_object" /\ last'.key \in DOMAIN bucket) =>
             LET src == last'.key
                 dst == last'.dst
             IN  /\ dst \in DOMAIN bucket'
                 /\ bucket'[dst] = bucket[src]
                 /\ bucket'[src] = bucket[src]
                 /\ \A h \in DOMAIN block_tree :
                        /\ h \in DOMAIN block_tree'
                        /\ block_tree'[h].rc =
                               block_tree[h].rc + Occ(bucket[src], h)]_vars
    /\ [](put.st = "idle" =>
             \A key \in DOMAIN bucket :
                 \A i \in 1..Len(bucket[key]) :
                     bucket[key][i] \in DOMAIN block_tree)

RECURSIVE C14_Refs(_, _)
C14_Refs(h, objs) ==
    IF objs = {} THEN 0
    ELSE LET o == CHOOSE x \in objs : TRUE
         IN  Occ(tenants.stores[o[1]].parts[o[2]][o[3]], h)
                 + C14_Refs(h, objs \ {o})

C14_Objects ==
    {o \in (DOMAIN tenants.stores) \X BucketNames \X Keys :
        /\ o[2] \in DOMAIN tenants.stores[o[1]].parts
        /\ o[3] \in DOMAIN tenants.stores[o[1]].parts[o[2]]}

(* C14: blocks are shared across tenants: a block stored by several        *)
(* tenants is in the shared block tree once, with rc equal to the number   *)
(* of references all tenants' objects hold (2 after two tenants put the    *)
(* same content, 1 after one of them deleted its object with the block    *)
(* entries and files still in place); when the last reference is deleted   *)
(* the block and its file are removed.                                     *)
C14_CrossTenantDedup ==
    \A h \in BlockIDs :
        LET n == C14_Refs(h, C14_Objects) IN
        IF n = 0
        THEN /\ h \notin DOMAIN block_tree
             /\ \A f \in DOMAIN disk : disk[f] # h
        ELSE /\ h \in DOMAIN block_tree
             /\ block_tree[h].rc = n
             /\ disk_path(block_tree[h].path) \in DOMAIN disk
             /\ disk[disk_path(block_tree[h].path)] = h

(* Both tenants had put the same two-block object; one has deleted it, the *)
(* other still holds it with rc = 1 on each block.                         *)
C14_Witness ==
    /\ Cardinality(DOMAIN tenants.stores) = 2
    /\ Cardinality(C14_Objects) = 1
    /\ \A h \in BlockIDs : h \in DOMAIN block_tree /\ block_tree[h].rc = 1
    /\ tenants.actor # ""
    /\ \E o \in C14_Objects : o[1] # user_meta_path(tenants.actor)

(* C15: tenant namespaces are disjoint: an operation through one tenant's  *)
(* handle (creating, listing or deleting buckets, inserting or deleting    *)
(* object records) leaves the bucket registry and the per-bucket object    *)
(* trees of every other tenant unchanged.                                  *)
C15_TenantNamespacesDisjoint ==
    [][\A u \in DOMAIN tenants.cache :
          u # tenants'.actor =>
              /\ u \in DOMAIN tenants'.cache
              /\ tenants'.cache[u] = tenants.cache[u]
              /\ tenants'.stores[tenants'.cache[u]]
                     = tenants.stores[tenants.cache[u]]]_vars

(* Tenant t1 has just acted and holds no bucket while tenant t2 holds a    *)
(* bucket with two objects.                                                *)
C15_Witness ==
    /\ tenants.actor = "t1"
    /\ DOMAIN tenants.cache = Users
    /\ tenants.stores[tenants.cache["t1"]].registry = {}
    /\ tenants.stores[tenants.cache["t2"]].registry = BucketNames
    /\ \A name \in BucketNames :
           DOMAIN tenants.stores[tenants.cache["t2"]].parts[name] = Keys


(* C16: store_bytes returns the BlockIDs in input order: element i of the  *)
(* returned list is the BlockID of the i-th chunk of the stream, whatever  *)
(* the order in which the chunk tasks reported.                            *)
C16_StoreBytesInputOrder ==
    (sb.st = "done" /\ sb.ret.ok) =>
        /\ Len(sb.ret.ids) = Len(sb.stream)
        /\ \A i \in 1..Len(sb.stream) : sb.ret.ids[i] = sb.stream[i]

(* store_bytes returned a list although a later chunk reported first.      *)
C16_Witness ==
    /\ sb.st = "done"
    /\ sb.ret.ok
    /\ \E j, k \in 1..Len(sb.chan) : j < k /\ sb.chan[j].idx > sb.chan[k].idx


(* C17: when the input stream, the metastore transaction or the disk write *)
(* failed for a chunk, store_bytes returns an error instead of a BlockID   *)
(* list, and the Blocks committed for the chunks of that stream are still  *)
(* in the block tree.                                                      *)
C17_StoreBytesChunkFailure ==
    (sb.st = "done" /\ sb.failed # {}) =>
        /\ ~sb.ret.ok
        /\ sb.ret.ids = <<>>
        /\ \A i \in sb.committed :
              /\ sb.stream[i] \in DOMAIN block_tree
              /\ block_tree[sb.stream[i]].rc >=
                     Cardinality({j \in sb.committed : sb.stream[j] = sb.stream[i]})

(* store_bytes returned after the write of one chunk's file failed, while  *)
(* another chunk of the stream had committed its Block.                    *)
C17_Witness ==
    /\ sb.st = "done"
    /\ \E f \in sb.failed :
          /\ f[2] \in {"write_err", "dir_write_err"}
          /\ \E i \in sb.committed : sb.stream[i] # sb.stream[f[1]]


(* C18: when unlinking the file of a collected block fails after the       *)
(* delete transaction committed (the step leaves the files as they were),  *)
(* delete_object does not end in failure: the block's path entry stays in  *)
(* the path tree and the call goes on with the remaining collected blocks, *)
(* returning success after the last one.                                   *)
C18_UnlinkFailureTolerated ==
    [][(del.st = "unlink" /\ del' # del /\ disk' = disk) =>
          /\ ~last'.panic
          /\ path_tree' = path_tree
          /\ Head(del.todo).path \in DOMAIN path_tree'
          /\ IF Tail(del.todo) = <<>>
             THEN del'.st = "idle" /\ last'.op = "delete_object"
             ELSE del'.st = "unlink" /\ del'.todo = Tail(del.todo)]_vars


(* C19: on the non-transactional backend, after a write_block that failed  *)
(* with entries staged and the rollback of its transaction (no other       *)
(* transaction running), no path-tree or block-tree entry created by that  *)
(* transaction remains: every entry left was there when it began.          *)
C19_NotxRollbackRemovesStaged ==
    rb.st = "rolled" =>
        /\ DOMAIN block_tree \subseteq DOMAIN rb.before.blocks
        /\ DOMAIN path_tree \subseteq DOMAIN rb.before.paths
        /\ \A j \in 1..Len(rb.f.inserted_blocks) :
              rb.f.inserted_blocks[j] \notin DOMAIN block_tree
        /\ \A j \in 1..Len(rb.f.inserted_paths) :
              rb.f.inserted_paths[j] \notin DOMAIN path_tree

(* A transaction was rolled back after one call had created a block and    *)
(* the insert of the next block failed with its path already staged.       *)
C19_Witness ==
    /\ rb.st = "rolled"
    /\ rb.f.pc = "ins_block"
    /\ Len(rb.f.inserted_paths) = 2
    /\ Len(rb.f.inserted_blocks) = 1


(* C20: for every set of keys in a bucket and every (start_after, prefix,  *)
(* continuation_token), range_filter yields in strictly ascending          *)
(* lexicographic order exactly the keys that start with prefix (all keys   *)
(* without a prefix) and are strictly greater than continuation_token and  *)
(* than start_after, whichever are given; swapping the values of the two   *)
(* arguments gives the same result.                                        *)
C20_RangeFilter ==
    listing.st = "done" =>
        LET out == listing.out
            lower == {o[1] : o \in {listing.start_after,
                                    listing.continuation_token} \ {None}}
            want == {k \in DOMAIN bucket :
                        /\ listing.prefix # None =>
                               starts_with(k, listing.prefix[1])
                        /\ \A b \in lower : StrLess(b, k)}
        IN  /\ {out[j] : j \in 1..Len(out)} = want
            /\ \A i, j \in 1..Len(out) : i < j => StrLess(out[i], out[j])
            /\ out = range_filter(DOMAIN bucket, listing.continuation_token,
                                  listing.prefix, listing.start_after)

(* A listing with a prefix and two different lower bounds, the larger one  *)
(* inside the prefix, that skips a key and yields a key; and the bucket    *)
(* holds the key made of the bound and a NUL byte.                         *)
C20_Witness ==
    /\ listing.st = "done"
    /\ listing.prefix # None
    /\ listing.start_after # None
    /\ listing.continuation_token # None
    /\ StrLess(listing.start_after[1], listing.continuation_token[1])
    /\ starts_with(listing.continuation_token[1], listing.prefix[1])
    /\ listing.continuation_token[1] \in DOMAIN bucket
    /\ Append(listing.continuation_token[1], 0) \in DOMAIN bucket
    /\ listing.out = <<Append(listing.continuation_token[1], 0)>>


(* C21: listing a bucket page by page, each call passing the last key of   *)
(* the previous page as continuation_token with the same prefix and taking *)
(* at most `limit` results, returns every key with that prefix exactly     *)
(* once and in lexicographic order when the bucket is not modified in      *)
(* between.                                                                *)
C21_PagedListingComplete ==
    LET acc == pager.acc
        want == {k \in DOMAIN bucket :
                    pager.prefix # None => starts_with(k, pager.prefix[1])}
    IN  pager.st # "off" =>
            /\ \A i, j \in 1..Len(acc) : i < j => StrLess(acc[i], acc[j])
            /\ {acc[j] : j \in 1..Len(acc)} \subseteq want
            /\ pager.st = "done" => {acc[j] : j \in 1..Len(acc)} = want

(* A listing of three keys with a prefix that took more than one page and  *)
(* left out a key without the prefix.                                      *)
C21_Witness ==
    /\ pager.st = "done"
    /\ pager.pages >= 2
    /\ pager.prefix # None
    /\ Len(pager.acc) >= 2
    /\ Len(pager.acc) < Cardinality(DOMAIN bucket)


(* C22: create_bucket(name) fails with BucketAlreadyExists whenever a      *)
(* bucket of that name exists, leaving the bucket's metadata record and    *)
(* object tree unchanged; so of several create_bucket calls for one name,  *)
(* in any interleaving, at most one succeeds (until the bucket is          *)
(* dropped).                                                               *)
C22_CreateBucketOnce ==
    /\ [][\A p \in Creators :
             (bcalls'[p].res = "Ok" /\ bcalls[p].res # "Ok") =>
                 /\ bcalls[p].name \notin ms.inserted
                 /\ bcalls[p].name \notin DOMAIN ms.registry]_vars
    /\ [](\A name \in DOMAIN ms.created : ms.created[name] <= 1)

(* C23: after any sequence of metastore operations bucket_exists(name) is  *)
(* true exactly for the names inserted with insert_bucket and not dropped  *)
(* since, and these are the names list_buckets returns, in lexicographic   *)
(* order; reads on a name that was never created do not make               *)
(* bucket_exists(name) true.                                               *)
C23_BucketExistsMatchesRegistry ==
    /\ \A name \in Names : bucket_exists(ms, name) <=> name \in ms.inserted
    /\ list_buckets(ms) = partition_iter(ms.inserted)


(* References to block h held by the objects of one bucket tree.           *)
RECURSIVE C24_Refs(_, _)
C24_Refs(h, bkt) ==
    IF DOMAIN bkt = {} THEN 0
    ELSE LET key == CHOOSE k \in DOMAIN bkt : TRUE
         IN  Occ(bkt[key], h) + C24_Refs(h, Remove(bkt, key))

C25_OneHandlePerUser ==
    /\ [](\A user_id \in Users :
             /\ user_id \in DOMAIN router.returned =>
                    Cardinality(router.returned[user_id]) <= 1
             /\ user_id \in DOMAIN router.built => router.built[user_id] <= 1)
    /\ [][\A user_id \in DOMAIN router.cache :
             /\ user_id \in DOMAIN router'.cache
             /\ router'.cache[user_id] = router.cache[user_id]]_vars

(* Two calls for one user missed on the fast path together; one of them    *)
(* constructed the handle and both have returned.                          *)
C25_Witness ==
    \E p, q \in Procs, user_id \in Users :
        /\ p # q
        /\ router.call[p] = [pc |-> "idle", user_id |-> user_id,
                             ret |-> <<user_id, 1>>]
        /\ router.call[q].user_id = user_id
        /\ router.call[q].pc = "write"
        /\ user_id \in DOMAIN router.cache


(* C26: once every create_user, delete_user and update_password call has  *)
(* returned, the three user trees agree: every record of _USERS has its    *)
(* login and its S3 key indexed to its user_id, every index entry points   *)
(* to an existing user with that login or key, and no two users share a    *)
(* login or an S3 access key.                                              *)
C26_UserTreesAgree ==
    (\A p \in Creators : us.call[p].pc = "idle") =>
        /\ \A id \in DOMAIN us.users :
              /\ us.users[id].user_id = id
              /\ us.users[id].ui_login \in DOMAIN us.by_login
              /\ us.by_login[us.users[id].ui_login] = id
              /\ us.users[id].s3_access_key \in DOMAIN us.by_s3_key
              /\ us.by_s3_key[us.users[id].s3_access_key] = id
        /\ \A l \in DOMAIN us.by_login :
              /\ us.by_login[l] \in DOMAIN us.users
              /\ us.users[us.by_login[l]].ui_login = l
        /\ \A k \in DOMAIN us.by_s3_key :
              /\ us.by_s3_key[k] \in DOMAIN us.users
              /\ us.users[us.by_s3_key[k]].s3_access_key = k
        /\ \A a, b \in DOMAIN us.users :
              a # b => /\ us.users[a].ui_login # us.users[b].ui_login
                       /\ us.users[a].s3_access_key # us.users[b].s3_access_key


(* The bytes a finished stream emitted, in order.                          *)
RECURSIVE C27_Concat(_)
C27_Concat(bufs) ==
    IF bufs = <<>> THEN <<>> ELSE Head(bufs) \o C27_Concat(Tail(bufs))

(* Number of bytes a request asks for.                                     *)
C27_RequestedLength ==
    CASE reader.range.kind = "All" -> reader.size
      [] reader.range.kind = "Range" -> reader.range.b - reader.range.a + 1
      [] OTHER -> reader.range.a

(* The offsets of [0, S) that lie in the requested range.                  *)
C27_Wanted ==
    {o \in 0..(reader.size - 1) :
        /\ range_start(reader.range, reader.size) <= o
        /\ o < range_end(reader.range, reader.size)}

(* The emitted bytes are the wanted offsets, each once, ascending; a       *)
(* stream is refused exactly when its request starts at or after S.        *)
C27_EmitsIntersection ==
    /\ reader.st = "done" =>
          LET out == C27_Concat(reader.out) IN
          /\ {out[j] : j \in 1..Len(out)} = C27_Wanted
          /\ \A i, j \in 1..Len(out) : i < j => out[i] < out[j]
    /\ reader.st = "InvalidRange" <=>
          (reader.st # "off"
           /\ range_start(reader.range, reader.size) >= reader.size)

C28_GetSession ==
    /\ \A id \in DOMAIN ss.issued \ ss.gone :
          /\ id \in DOMAIN ss.sessions
          /\ ss.sessions[id].user_id = ss.issued[id]
    /\ ss.ret.op = "get_session" =>
          LET id == ss.ret.arg[1] IN
          \A user_id \in SessionUsers :
             (ss.ret.val = <<user_id>>) <=>
                 /\ id \in DOMAIN ss.issued
                 /\ ss.issued[id] = user_id
                 /\ id \notin ss.gone
                 /\ ss.ret.at < ss.sessions[id].expires_at
    /\ ss.ret.op = "get_session" =>
          \/ ss.ret.val = <<>>
          \/ \E user_id \in SessionUsers : ss.ret.val = <<user_id>>

(* get_session returned None for a session that is still stored, at the    *)
(* instant of its expiry.                                                  *)
C28_Witness ==
    /\ ss.ret.op = "get_session"
    /\ ss.ret.val = <<>>
    /\ ss.ret.arg[1] \in DOMAIN ss.sessions
    /\ ss.ret.at = ss.sessions[ss.ret.arg[1]].expires_at
    /\ ss.gone # {}


(* C29: cleanup_expired removes exactly the sessions whose expiry time had *)
(* passed when it examined them, returns how many it removed, and leaves   *)
(* every other session in the store unchanged.                             *)
C29_CleanupExpired ==
    ss.ret.op = "cleanup_expired" =>
        LET before == ss.ret.before
            removed == DOMAIN before \ DOMAIN ss.sessions
        IN  /\ DOMAIN ss.sessions \subseteq DOMAIN before
            /\ DOMAIN ss.ret.seen = DOMAIN before
            /\ \A id \in DOMAIN before :
                  (id \in removed) <=> (before[id].expires_at <= ss.ret.seen[id])
            /\ ss.ret.val = <<Cardinality(removed)>>
            /\ \A id \in DOMAIN ss.sessions : ss.sessions[id] = before[id]

(* cleanup_expired returned after removing an expired session and keeping  *)
(* an unexpired one.                                                       *)
C29_Witness ==
    /\ ss.ret.op = "cleanup_expired"
    /\ ss.ret.val = <<1>>
    /\ Cardinality(DOMAIN ss.ret.before) = 2
    /\ Cardinality(DOMAIN ss.sessions) = 1

(* C30: delete_user_sessions(user) removes all sessions of that user and   *)
(* only those, returning their number; every session of another user stays *)
(* in the store with its user and its expiry unchanged.                    *)
C30_DeleteUserSessions ==
    ss.ret.op = "delete_user_sessions" =>
        LET before == ss.ret.before
            theirs == {id \in DOMAIN before : before[id].user_id = ss.ret.arg[1]}
        IN  /\ DOMAIN ss.sessions = DOMAIN before \ theirs
            /\ ss.ret.val = <<Cardinality(theirs)>>
            /\ \A id \in DOMAIN before \ theirs : ss.sessions[id] = before[id]
            /\ theirs \subseteq ss.gone

(* delete_user_sessions removed two sessions of one user and kept the      *)
(* session of the other.                                                   *)
C30_Witness ==
    /\ ss.ret.op = "delete_user_sessions"
    /\ ss.ret.val = <<2>>
    /\ Cardinality(DOMAIN ss.sessions) = 1


(* C31: refresh_session returns true exactly for a stored session that has *)
(* not expired and then sets its expiry to now + lifetime; otherwise it    *)
(* returns false and changes no session; no step of the store makes an     *)
(* expired session unexpired.                                              *)
C31_RefreshSession ==
    [][/\ (/\ ss'.ret.op = "refresh_session"
           /\ ss'.now = ss.now
           /\ ss'.pending = ss.pending
           /\ ss'.cleanup = ss.cleanup) =>
              LET id == ss'.ret.arg[1]
                  ok == ss'.ret.val[1]
              IN  /\ ok <=> (/\ id \in DOMAIN ss.sessions
                             /\ ss.now < ss.sessions[id].expires_at)
                  /\ ok => ss'.sessions =
                              [ss.sessions EXCEPT ![id].expires_at =
                                  ss.now + session_lifetime]
                  /\ ~ok => ss'.sessions = ss.sessions
       /\ \A id \in DOMAIN ss.sessions \cap DOMAIN ss'.sessions :
             ss.sessions[id].expires_at <= ss.now =>
                ss'.sessions[id].expires_at <= ss'.now]_vars

(* refresh_session returned true for a session created earlier, whose      *)
(* expiry is now later than the one it was created with.                   *)
C31_Witness ==
    /\ ss.ret.op = "refresh_session"
    /\ ss.ret.val = <<TRUE>>
    /\ ss.sessions[ss.ret.arg[1]].expires_at
          > ss.sessions[ss.ret.arg[1]].created_at + session_lifetime
    /\ \E id \in DOMAIN ss.sessions : ss.sessions[id].expires_at <= ss.now


(* C32: on the non-transactional backend, once concurrent write_block      *)
(* calls for different BlockIDs with a common leading prefix have          *)
(* returned, no two Blocks of the block tree hold the same path and the    *)
(* path tree maps the path of every Block to that Block's id.              *)
C32_NotxDistinctPaths ==
    (\A p \in Putters : ingests[p].pc \in {"idle", "done"}) =>
        /\ \A g, h \in DOMAIN block_tree :
              g # h => block_tree[g].path # block_tree[h].path
        /\ \A h \in DOMAIN block_tree :
              /\ block_tree[h].path \in DOMAIN path_tree
              /\ path_tree[block_tree[h].path] = h


(* C33: when store_bytes has returned success, every returned BlockID has  *)
(* its Block in the block tree and its file on disk holding the bytes of   *)
(* the chunk, also when the chunk was deduplicated against a Block created *)
(* by a concurrently running ingest.                                       *)
C33_ReturnedBlocksOnDisk ==
    (sb.st = "done" /\ sb.ret.ok) =>
        \A j \in 1..Len(sb.ret.ids) :
           LET id == sb.ret.ids[j] IN
           /\ id \in DOMAIN block_tree
           /\ disk_path(block_tree[id].path) \in DOMAIN disk
           /\ disk[disk_path(block_tree[id].path)] = id


(* C34: rolling back a non-transactional transaction removes no Block that *)
(* was in the block tree when the transaction began: such a Block, whose   *)
(* refcount the transaction at most incremented, is present after the      *)
(* rollback with an rc no lower than before.                               *)
C34_NotxRollbackKeepsOldBlocks ==
    rb.st = "rolled" =>
        \A h \in DOMAIN rb.before.blocks :
           /\ h \in DOMAIN block_tree
           /\ block_tree[h].rc >= rb.before.blocks[h].rc


(* C35: when write_block on the transactional backend returns an error,    *)
(* the block tree and the path tree hold what they held before the call.   *)
C35_FailedWriteBlockLeavesTrees ==
    wbf.st = "err" =>
        /\ block_tree = wbf.before.blocks
        /\ path_tree = wbf.before.paths


(* C36: get_bucket_keys yields every key of the bucket exactly once, in    *)
(* ascending order, and then ends (yielding nothing for an empty bucket);  *)
(* removing keys it has already yielded while it runs makes it skip or     *)
(* repeat none of the remaining keys.                                      *)
C36_BucketKeys ==
    LET all == partition_iter(scan.begun) IN
    /\ scan.st \in {"run", "done"} =>
          /\ Len(scan.out) <= Len(all)
          /\ scan.out = SubSeq(all, 1, Len(scan.out))
    /\ scan.st = "done" => scan.out = all

(* The iterator ended after yielding three keys, all of them removed       *)
(* while it ran.                                                           *)
C36_Witness ==
    /\ scan.st = "done"
    /\ Len(scan.out) = 3
    /\ DOMAIN bucket = {}


(* C37: once a password change for a user has completed, no session of     *)
(* that user obtained by a login that verified the old password is valid,  *)
(* whatever the interleaving with concurrent logins.                       *)
C37_OldPasswordSessionsGone ==
    \A id \in DOMAIN ui.sessions :
       ui.sessions[id].user_id \in ui.changed => ui.sessions[id].via # "old"

(* C38: after a POST /logout that carried the cookie of a valid session,   *)
(* that session is no longer in the session store, so a later request with *)
(* the same cookie is unauthenticated.                                     *)
C38_LogoutDeletesSession ==
    \A id \in ui.logged_out :
       /\ id \notin DOMAIN ui.sessions
       /\ route_request("/profile/password", id \in DOMAIN ui.sessions)
             = "login_redirect_response"

(* C39: over every interleaving of concurrent POST /setup-admin requests   *)
(* at most one account is ever created through setup.                      *)
C39_SetupCreatesOneAccount ==
    Cardinality(DOMAIN ui.users) <= 1

====
